---- MODULE Spec2Model ----
(***************************************************************************)
(* Cart perks of the storefront: the reconciliation subtotal, the          *)
(* milestone evaluator (server route and client controller), the free-item *)
(* manager and the pass processCartPerks that the cart route runs after    *)
(* every cart action and on every page load.                               *)
(*                                                                         *)
(* Conventions.  A JavaScript number is a record [nan, v]: v counts        *)
(* hundredths of a currency unit, nan marks NaN.  A string that the code   *)
(* parses or formats (an amount, a _FREE_ITEM_THRESHOLD value) is a        *)
(* sequence of one-character strings; line attributes are the wire list of *)
(* [key, value] pairs.  Undefined stands for a missing value.              *)
(***************************************************************************)
EXTENDS Integers, Sequences, FiniteSets, TLC

VARIABLES
    hasCart,     \* the session has a cart: cart.get() returns a snapshot
    lines,       \* cart.lines.nodes of the cart store, a set of lines with distinct ids
    shipAttr,    \* value of the cart attribute __FREE_SHIPPING, Undefined if absent
    variant,     \* the session's cart_perks_variant (for the calculators: their variant argument)
    urlVariant,  \* the cart_variant parameter of the request URL
    catalog,     \* what storefront.query answers for each product handle
    op,          \* the step that ran last: a handler of the cart route, or a change around it
    calls,       \* the cart mutations the pass of that handler called, with their arguments
    failed,      \* which of those calls threw
    calcCart,    \* input of the pure calculators: a cart snapshot
    calcOut,     \* their outputs: server and client CartPerksState
    discountCodes, \* cart.discountCodes: the codes applied to the cart, in order
    form,        \* the product form of the 3-pack: its React state, what it rendered and posted
    resolveCall, \* a call of resolveProductVariant on its own: its arguments and its result
    flags,       \* the feature values of a session: the server's, the browser's, the last one resolved
    returned     \* what the request of the last step returned, if that step was a request

vars == <<hasCart, lines, shipAttr, variant, urlVariant, catalog, op, calls, failed, calcCart, calcOut,
          discountCodes, form, resolveCall, flags,
                   returned>>

(***************************************************************************)
(* Bounds of the model.                                                    *)
(***************************************************************************)
MaxQty == 2
MaxCalcLines == 2
MaxCartLines == 4
MaxItems == 6       \* largest total quantity of a cart of the bundle route

(***************************************************************************)
(* JavaScript numbers and strings.                                         *)
(***************************************************************************)
Undefined == <<"undefined">>

\* const x = v; F(x): the value v is computed once
Let(v, F(_)) == CHOOSE r \in {F(x) : x \in {v}} : TRUE

NaN == [nan |-> TRUE, v |-> 0]

Num(h) == [nan |-> FALSE, v |-> h]

\* a number literal of the source, in currency units
Units(u) == Num(u * 100)

JsAdd(a, b) == IF a.nan \/ b.nan THEN NaN ELSE Num(a.v + b.v)

JsSub(a, b) == IF a.nan \/ b.nan THEN NaN ELSE Num(a.v - b.v)

\* a >= b written as a > b
JsGeStrict(a, b) == ~a.nan /\ ~b.nan /\ a.v > b.v

JsGe(a, b) == ~a.nan /\ ~b.nan /\ a.v >= b.v

JsLt(a, b) == ~a.nan /\ ~b.nan /\ a.v < b.v

JsGt(a, b) == ~a.nan /\ ~b.nan /\ a.v > b.v

MathMax(a, b) == IF a.nan \/ b.nan THEN NaN ELSE IF a.v >= b.v THEN a ELSE b

DigitChars == <<"0", "1", "2", "3", "4", "5", "6", "7", "8", "9">>

IsDigit(c) == \E i \in 1..Len(DigitChars) : DigitChars[i] = c

DigitVal(c) == (CHOOSE i \in 1..Len(DigitChars) : DigitChars[i] = c) - 1

RECURSIVE RunLen(_, _)
\* how many digits s holds from position i on
RunLen(s, i) == IF i > Len(s) \/ ~IsDigit(s[i]) THEN 0 ELSE 1 + RunLen(s, i + 1)

RECURSIVE RunVal(_, _, _)
\* the value of the n digits of s that start at position i
RunVal(s, i, n) == IF n = 0 THEN 0 ELSE RunVal(s, i, n - 1) * 10 + DigitVal(s[i + n - 1])

RECURSIVE SkipSpace(_, _)
SkipSpace(s, i) == IF i <= Len(s) /\ s[i] = " " THEN SkipSpace(s, i + 1) ELSE i

\* parseFloat: leading blanks, a sign, the longest decimal prefix; NaN when the
\* prefix holds no digit.  Fraction digits after the second are not in the palettes.
\* the decimal literal of s that starts at position i: n digits, then "." and m digits
ParseDecimal(s, i, neg) ==
    Let(RunLen(s, i), LAMBDA n :
    Let(IF i + n <= Len(s) /\ s[i + n] = "." THEN RunLen(s, i + n + 1) ELSE 0, LAMBDA m :
    Let(RunVal(s, i, n) * 100
          + (IF m >= 1 THEN DigitVal(s[i + n + 1]) * 10 ELSE 0)
          + (IF m >= 2 THEN DigitVal(s[i + n + 2]) ELSE 0), LAMBDA mag :
        IF n + m = 0 THEN NaN ELSE Num(IF neg THEN 0 - mag ELSE mag))))

ParseFloat(s) ==
    Let(SkipSpace(s, 1), LAMBDA start :
        IF start <= Len(s) /\ s[start] \in {"-", "+"}
        THEN ParseDecimal(s, start + 1, s[start] = "-")
        ELSE ParseDecimal(s, start, FALSE))

RECURSIVE NatToString(_)
NatToString(n) ==
    IF n < 10 THEN <<DigitChars[n + 1]>>
    ELSE NatToString(n \div 10) \o <<DigitChars[(n % 10) + 1]>>

\* Number.prototype.toString of a non-negative number with at most two decimals
NumberToString(x) ==
    LET whole == x.v \div 100
        frac == x.v % 100
    IN  IF x.nan THEN <<"N", "a", "N">>
        ELSE IF frac = 0 THEN NatToString(whole)
        ELSE IF frac % 10 = 0 THEN NatToString(whole) \o <<".", DigitChars[(frac \div 10) + 1]>>
        ELSE NatToString(whole) \o <<".", DigitChars[(frac \div 10) + 1], DigitChars[(frac % 10) + 1]>>

(***************************************************************************)
(* Cart lines.                                                             *)
(***************************************************************************)
NoStr == "undefined"

\* the product form is not on the page
NoForm == [mounted |-> FALSE]

\* resolveProductVariant was not called on its own
NoResolve == [done |-> FALSE]

\* no feature value has been looked at
NoFlags == [used |-> FALSE]

\* no request answered yet
NoResponse == [kind |-> "none"]

StrTrue == <<"t", "r", "u", "e">>

StrFalse == <<"f", "a", "l", "s", "e">>

Attr(k, v) == [key |-> k, value |-> v]

\* line.cost?.totalAmount?.amount: the optional chain ends at `chain`
Cost(chain, amount) == [chain |-> chain, amount |-> amount]

AmountOf(line) == IF line.cost.chain = "amount" THEN line.cost.amount ELSE Undefined

\* x || '0': undefined and the empty string are falsy
OrZero(s) == IF s = Undefined \/ s = <<>> THEN <<"0">> ELSE s

\* line.attributes?.some(attr => attr.key === k && attr.value === v)
SomeAttr(line, k, v) ==
    /\ line.hasAttrs
    /\ \E i \in 1..Len(line.attributes) :
           line.attributes[i].key = k /\ line.attributes[i].value = v

HasKey(line, k) ==
    line.hasAttrs /\ \E i \in 1..Len(line.attributes) : line.attributes[i].key = k

\* attributes.find(attr => attr.key === k).value, of the first match
FindAttr(attributes, k) ==
    attributes[CHOOSE i \in 1..Len(attributes) :
                   /\ attributes[i].key = k
                   /\ \A j \in 1..(i - 1) : attributes[j].key # k].value

(***************************************************************************)
(* Subtotal calculator: the cart route's copy and the client library's.    *)
(***************************************************************************)
RECURSIVE ReduceServer(_, _, _)
ReduceServer(nodes, i, total) ==
    IF i > Len(nodes) THEN total
    ELSE LET line == nodes[i]
             isFreeItem == SomeAttr(line, "_FREE_ITEM", StrTrue)
         IN  IF isFreeItem THEN ReduceServer(nodes, i + 1, total)
             ELSE Let(ParseFloat(OrZero(AmountOf(line))), LAMBDA price :
                  Let(JsAdd(total, price), LAMBDA sum : ReduceServer(nodes, i + 1, sum)))

RECURSIVE ReduceAllLines(_, _, _)
ReduceAllLines(nodes, i, total) ==
    IF i > Len(nodes) THEN total
    ELSE Let(JsAdd(total, ParseFloat(OrZero(AmountOf(nodes[i])))), LAMBDA sum :
             ReduceAllLines(nodes, i + 1, sum))

\* the subtotal without the free-line filter
calculateSubtotalOfAllLines(cartResult) ==
    IF ~cartResult.exists \/ ~cartResult.hasLines THEN Units(0)
    ELSE ReduceAllLines(cartResult.nodes, 1, Units(0))

calculateSubtotalExcludingFreeItems(cartResult) ==
    IF ~cartResult.exists \/ ~cartResult.hasLines THEN Units(0)
    ELSE ReduceServer(cartResult.nodes, 1, Units(0))

RECURSIVE ReduceClient(_, _, _)
ReduceClient(nodes, i, total) ==
    IF i > Len(nodes) THEN total
    ELSE LET line == nodes[i]
             isFreeItem == SomeAttr(line, "_FREE_ITEM", StrTrue)
         IN  IF isFreeItem THEN ReduceClient(nodes, i + 1, total)
             ELSE Let(ParseFloat(OrZero(AmountOf(line))), LAMBDA price :
                  Let(JsAdd(total, price), LAMBDA sum : ReduceClient(nodes, i + 1, sum)))

calculateSubtotalExcludingFreeItemsClient(cart) ==
    IF ~cart.exists \/ ~cart.hasLines THEN Units(0)
    ELSE ReduceClient(cart.nodes, 1, Units(0))

(***************************************************************************)
(* Milestone evaluator.                                                    *)
(***************************************************************************)
Milestone(threshold, type, handle, title, variantSpec) ==
    [threshold |-> Units(threshold), type |-> type, handle |-> handle,
     title |-> title, variant |-> variantSpec]

\* VARIANTS of the cart route
VARIANTS(v) ==
    LET A == <<Milestone(50, "shipping", NoStr, NoStr, NoStr)>>
        B == <<Milestone(50, "shipping", NoStr, NoStr, NoStr),
               Milestone(100, "freeItem", "black-sunnies", "Black Sunnies", NoStr),
               Milestone(150, "freeItem", "frontpack", "Front Pack", "green")>>
    IN  IF v = "A" THEN A ELSE IF v = "B" THEN B ELSE A

\* CART_PERKS_VARIANTS of the client library
CART_PERKS_VARIANTS(v) ==
    LET A == <<Milestone(50, "shipping", NoStr, NoStr, NoStr)>>
        B == <<Milestone(50, "shipping", NoStr, NoStr, NoStr),
               Milestone(100, "freeItem", "black-sunnies", "Black Sunnies", NoStr),
               Milestone(150, "freeItem", "frontpack", "Front Pack", "green")>>
    IN  IF v = "A" THEN A ELSE IF v = "B" THEN B ELSE A

Progress(m, achieved, remaining, eligible) ==
    [threshold |-> m.threshold, type |-> m.type, handle |-> m.handle, title |-> m.title,
     variant |-> m.variant, achieved |-> achieved, remaining |-> remaining,
     eligible |-> eligible]

\* the last unachieved milestone instead of the first
FindLastUnachieved(ms) ==
    LET idx == {i \in 1..Len(ms) : ~ms[i].achieved}
    IN  IF idx = {} THEN <<>>
        ELSE <<ms[CHOOSE i \in idx : \A j \in idx : i >= j]>>

\* milestones.find(m => !m.achieved), as a sequence of at most one element
FindUnachieved(ms) ==
    LET idx == {i \in 1..Len(ms) : ~ms[i].achieved}
    IN  IF idx = {} THEN <<>>
        ELSE <<ms[CHOOSE i \in idx : \A j \in idx : i <= j]>>

\* the server-side evaluator with hasProgress not guarded by a positive subtotal
calculateCartPerksStateUnguarded(cartResult, v) ==
    Let(calculateSubtotalExcludingFreeItems(cartResult), LAMBDA subtotal :
    Let(VARIANTS(v), LAMBDA milestones :
    Let([i \in 1..Len(milestones) |->
            Progress(milestones[i],
                     JsGe(subtotal, milestones[i].threshold),
                     MathMax(Units(0), JsSub(milestones[i].threshold, subtotal)),
                     JsGe(subtotal, milestones[i].threshold))], LAMBDA milestoneProgress :
        [variant |-> v,
         subtotal |-> subtotal,
         milestones |-> milestoneProgress,
         nextMilestone |-> FindUnachieved(milestoneProgress),
         hasProgress |-> \E i \in 1..Len(milestoneProgress) : ~milestoneProgress[i].achieved,
         allAchieved |-> \A i \in 1..Len(milestoneProgress) : milestoneProgress[i].achieved])))

calculateCartPerksState(cartResult, v) ==
    Let(calculateSubtotalExcludingFreeItems(cartResult), LAMBDA subtotal :
    Let(VARIANTS(v), LAMBDA milestones :
    Let([i \in 1..Len(milestones) |->
            Progress(milestones[i],
                     JsGe(subtotal, milestones[i].threshold),
                     MathMax(Units(0), JsSub(milestones[i].threshold, subtotal)),
                     JsGe(subtotal, milestones[i].threshold))], LAMBDA milestoneProgress :
        [variant |-> v,
         subtotal |-> subtotal,
         milestones |-> milestoneProgress,
         nextMilestone |-> FindUnachieved(milestoneProgress),
         hasProgress |-> JsGt(subtotal, Units(0))
                          /\ \E i \in 1..Len(milestoneProgress) : ~milestoneProgress[i].achieved,
         allAchieved |-> \A i \in 1..Len(milestoneProgress) : milestoneProgress[i].achieved])))

\* the client-side evaluator answering with the fallback state of its catch branch
useCartPerksControllerFallback(cart, v) ==
    [variant |-> v,
     subtotal |-> Units(0),
     milestones |-> <<>>,
     nextMilestone |-> <<>>,
     hasProgress |-> FALSE,
     allAchieved |-> FALSE]

useCartPerksController(cart, v) ==
    Let(calculateSubtotalExcludingFreeItemsClient(cart), LAMBDA subtotal :
    Let(CART_PERKS_VARIANTS(v), LAMBDA milestones :
    Let([i \in 1..Len(milestones) |->
            Let(JsGe(subtotal, milestones[i].threshold), LAMBDA achieved :
                Progress(milestones[i], achieved,
                         MathMax(Units(0), JsSub(milestones[i].threshold, subtotal)),
                         achieved))], LAMBDA milestoneProgress :
    Let(FindUnachieved(milestoneProgress), LAMBDA nextMilestone :
        [variant |-> v,
         subtotal |-> subtotal,
         milestones |-> milestoneProgress,
         nextMilestone |-> nextMilestone,
         hasProgress |-> JsGt(subtotal, Units(0)) /\ nextMilestone # <<>>,
         allAchieved |-> \A i \in 1..Len(milestoneProgress) : milestoneProgress[i].achieved]))))

(***************************************************************************)
(* The cart store (external): lines, their ids and costs, cart attributes. *)
(***************************************************************************)
Line(id, handle, merchandiseId, quantity, cost, hasAttrs, attributes) ==
    [id |-> id, handle |-> handle, merchandiseId |-> merchandiseId, quantity |-> quantity,
     cost |-> cost, hasAttrs |-> hasAttrs, attributes |-> attributes]

Snapshot(exists, hasLines, nodes, attributes) ==
    [exists |-> exists, hasLines |-> hasLines, nodes |-> nodes, attributes |-> attributes]

\* line.merchandise.product.handle of a merchandise id
ProductHandle(merchandiseId) ==
    CASE merchandiseId = "tee/std" -> "tee"
      [] merchandiseId = "tee/blue" -> "tee"
      [] merchandiseId = "tee/red" -> "tee"
      [] merchandiseId = "cap/std" -> "cap"
      [] merchandiseId = "scarf/std" -> "scarf"
      [] merchandiseId = "jacket/std" -> "jacket"
      [] merchandiseId = "black-sunnies/black" -> "black-sunnies"
      [] merchandiseId = "frontpack/red" -> "frontpack"
      [] merchandiseId = "frontpack/green" -> "frontpack"
      [] OTHER -> NoStr

\* unit price of a merchandise id, in hundredths
UnitPrice(merchandiseId) ==
    CASE merchandiseId = "tee/std" -> 4000
      [] merchandiseId = "tee/blue" -> 4000
      [] merchandiseId = "tee/red" -> 4000
      [] merchandiseId = "cap/std" -> 5000
      [] merchandiseId = "scarf/std" -> 3000
      [] merchandiseId = "jacket/std" -> 8000
      [] merchandiseId = "black-sunnies/black" -> 2500
      [] OTHER -> 6000

\* the store's decimal string of an amount: "120.0", "49.99"
FormatAmount(h) ==
    IF h % 100 = 0 THEN NatToString(h \div 100) \o <<".", "0">> ELSE NumberToString(Num(h))

LineCostOf(merchandiseId, quantity) ==
    Cost("amount", FormatAmount(UnitPrice(merchandiseId) * quantity))

\* the id of a new line: opaque in the store, and distinct per line because the store
\* keeps one line per merchandise and attribute list
LineId(input) == <<input.merchandiseId, input.attributes>>

RECURSIVE Nodes(_)
\* cart.lines.nodes: the lines as an array, in some fixed order
Nodes(ls) ==
    IF ls = {} THEN <<>>
    ELSE LET first == CHOOSE l \in ls : TRUE
         IN  <<first>> \o Nodes(ls \ {first})

\* cart.get()
CartGet(exists, ls, ship) ==
    Snapshot(exists, exists, IF exists THEN Nodes(ls) ELSE <<>>,
             IF exists /\ ship # Undefined THEN <<Attr("__FREE_SHIPPING", ship)>> ELSE <<>>)

\* cart.addLines of one line input: a line of the same merchandise and attributes
\* takes the quantity, otherwise a new line is created
StoreAddLine(ls, input) ==
    LET same == {l \in ls : l.merchandiseId = input.merchandiseId
                            /\ l.attributes = input.attributes}
    IN  IF same # {}
        THEN LET l == CHOOSE x \in same : TRUE
                 q == l.quantity + input.quantity
             IN  (ls \ {l}) \cup {[l EXCEPT !.quantity = q,
                                            !.cost = LineCostOf(l.merchandiseId, q)]}
        ELSE ls \cup {Line(LineId(input), ProductHandle(input.merchandiseId),
                           input.merchandiseId, input.quantity,
                           LineCostOf(input.merchandiseId, input.quantity),
                           TRUE, input.attributes)}

RECURSIVE StoreAddLines(_, _, _)
StoreAddLines(ls, inputs, i) ==
    IF i > Len(inputs) THEN ls ELSE StoreAddLines(StoreAddLine(ls, inputs[i]), inputs, i + 1)

\* cart.updateLines([{id, quantity}])
StoreUpdateLine(ls, id, quantity) ==
    {IF l.id = id
     THEN [l EXCEPT !.quantity = quantity, !.cost = LineCostOf(l.merchandiseId, quantity)]
     ELSE l : l \in ls}

\* cart.removeLines(ids)
StoreRemoveLines(ls, ids) == {l \in ls : \A i \in 1..Len(ids) : ids[i] # l.id}

(***************************************************************************)
(* The catalog (external): storefront.query(GET_PRODUCT_BY_HANDLE).        *)
(***************************************************************************)
ProductVariant(id, availableForSale, title, color) ==
    [id |-> id, availableForSale |-> availableForSale, title |-> title,
     selectedOptions |-> <<[name |-> "Color", value |-> color]>>]

Response(throws, product) == [throws |-> throws, product |-> product]

Product(dflt, variants) == [selectedOrFirstAvailableVariant |-> dflt, variants |-> variants]

SunniesBlack(avail) == ProductVariant("black-sunnies/black", avail, "Black", "Black")

FrontpackRed == ProductVariant("frontpack/red", TRUE, "Red", "Red")

FrontpackGreen == ProductVariant("frontpack/green", TRUE, "Green", "Green")

CatalogAllFine ==
    [h \in {"black-sunnies", "frontpack"} |->
        IF h = "black-sunnies"
        THEN Response(FALSE, <<Product(<<SunniesBlack(TRUE)>>, <<SunniesBlack(TRUE)>>)>>)
        ELSE Response(FALSE, <<Product(<<FrontpackRed>>, <<FrontpackRed, FrontpackGreen>>)>>)]

CatalogSoldOut ==
    [h \in {"black-sunnies", "frontpack"} |->
        IF h = "black-sunnies"
        THEN Response(FALSE, <<Product(<<SunniesBlack(FALSE)>>, <<SunniesBlack(FALSE)>>)>>)
        ELSE Response(FALSE, <<Product(<<FrontpackRed>>, <<FrontpackRed>>)>>)]

CatalogDown ==
    [h \in {"black-sunnies", "frontpack"} |->
        IF h = "black-sunnies"
        THEN Response(TRUE, <<>>)
        ELSE Response(FALSE, <<>>)]

Catalogs == {CatalogAllFine, CatalogSoldOut, CatalogDown}

\* String.prototype.toLowerCase on the option names and values of the catalogs
ToLowerCase(s) ==
    CASE s = "Color" -> "color"
      [] s = "Black" -> "black"
      [] s = "Red" -> "red"
      [] s = "Green" -> "green"
      [] s = "GREEN" -> "green"
      [] OTHER -> s

(***************************************************************************)
(* Free item manager.                                                      *)
(***************************************************************************)
\* the characters of a product handle, for the _FREE_ITEM_TYPE tag
HandleChars(h) ==
    CASE h = "black-sunnies" -> <<"b", "l", "a", "c", "k", "-", "s", "u", "n", "n", "i", "e", "s">>
      [] h = "frontpack" -> <<"f", "r", "o", "n", "t", "p", "a", "c", "k">>
      [] OTHER -> <<"u", "n", "k", "n", "o", "w", "n">>

\* no storefront client
NoStorefront == [h \in {} |-> Response(FALSE, <<>>)]

\* the resolver with the selector compared to the option value as written
resolveExactCase(handle, variantSpec, storefront) ==
    LET response == storefront[handle]
        product == response.product[1]
        matching == {i \in 1..Len(product.variants) :
                        \E o \in 1..Len(product.variants[i].selectedOptions) :
                            /\ ToLowerCase(product.variants[i].selectedOptions[o].name) = "color"
                            /\ product.variants[i].selectedOptions[o].value = variantSpec}
    IN  IF DOMAIN storefront = {} THEN <<>>
        ELSE IF response.throws THEN <<>>
        ELSE IF response.product = <<>> THEN <<>>
        ELSE IF variantSpec = NoStr \/ variantSpec = "" THEN product.selectedOrFirstAvailableVariant
        ELSE IF matching # {}
             THEN <<product.variants[CHOOSE i \in matching : \A j \in matching : i <= j]>>
        ELSE product.selectedOrFirstAvailableVariant

\* the result is a sequence of at most one variant: empty for null
resolveProductVariant(handle, variantSpec, storefront) ==
    LET response == storefront[handle]
        product == response.product[1]
        matching == {i \in 1..Len(product.variants) :
                        \E o \in 1..Len(product.variants[i].selectedOptions) :
                            /\ ToLowerCase(product.variants[i].selectedOptions[o].name) = "color"
                            /\ ToLowerCase(product.variants[i].selectedOptions[o].value)
                                   = ToLowerCase(variantSpec)}
    IN  IF DOMAIN storefront = {} THEN <<>>
        ELSE IF response.throws THEN <<>>
        ELSE IF response.product = <<>> THEN <<>>
        ELSE IF variantSpec = NoStr \/ variantSpec = "" THEN product.selectedOrFirstAvailableVariant
        ELSE IF matching # {}
             THEN <<product.variants[CHOOSE i \in matching : \A j \in matching : i <= j]>>
        ELSE product.selectedOrFirstAvailableVariant

\* the free line with its marker under a key the calculators do not read
createMistaggedLine(v, milestone) ==
    [merchandiseId |-> v.id,
     quantity |-> 1,
     attributes |-> <<Attr("FREE_ITEM", StrTrue),
                      Attr("_FREE_ITEM_TYPE", HandleChars(milestone.handle)),
                      Attr("_FREE_ITEM_THRESHOLD", NumberToString(milestone.threshold))>>]

\* the free line with the threshold tag "0" instead of the milestone's threshold
createZeroThresholdLine(v, milestone) ==
    [merchandiseId |-> v.id,
     quantity |-> 1,
     attributes |-> <<Attr("_FREE_ITEM", StrTrue),
                      Attr("_FREE_ITEM_TYPE", HandleChars(milestone.handle)),
                      Attr("_FREE_ITEM_THRESHOLD", <<"0">>)>>]

\* a free-item line that also gets the tags of a bundle
createFreeItemLineInBundle(v, milestone) ==
    [merchandiseId |-> v.id,
     quantity |-> 1,
     attributes |-> <<Attr("_FREE_ITEM", StrTrue),
                      Attr("_FREE_ITEM_TYPE", HandleChars(milestone.handle)),
                      Attr("_FREE_ITEM_THRESHOLD", NumberToString(milestone.threshold)),
                      Attr("_BUNDLE_NAME", "men-t-shirt"),
                      Attr("_BUNDLE_ID", "bundle-1")>>]

createFreeItemLine(v, milestone) ==
    [merchandiseId |-> v.id,
     quantity |-> 1,
     attributes |-> <<Attr("_FREE_ITEM", StrTrue),
                      Attr("_FREE_ITEM_TYPE", HandleChars(milestone.handle)),
                      Attr("_FREE_ITEM_THRESHOLD", NumberToString(milestone.threshold))>>]

\* a free line without a stored threshold treated as always stale
shouldRemoveUnstampedToo(line, currentSubtotal) ==
    IF ~line.hasAttrs THEN FALSE
    ELSE IF ~SomeAttr(line, "_FREE_ITEM", StrTrue) THEN FALSE
    ELSE IF ~HasKey(line, "_FREE_ITEM_THRESHOLD") THEN TRUE
    ELSE JsLt(currentSubtotal, ParseFloat(FindAttr(line.attributes, "_FREE_ITEM_THRESHOLD")))

shouldRemoveFreeItemLine(line, currentSubtotal) ==
    IF ~line.hasAttrs THEN FALSE
    ELSE IF ~SomeAttr(line, "_FREE_ITEM", StrTrue) THEN FALSE
    ELSE IF ~HasKey(line, "_FREE_ITEM_THRESHOLD") THEN FALSE
    ELSE JsLt(currentSubtotal, ParseFloat(FindAttr(line.attributes, "_FREE_ITEM_THRESHOLD")))

getFreeItemsToRemove(cartLines, currentSubtotal) ==
    LET keep(line) == shouldRemoveFreeItemLine(line, currentSubtotal)
    IN  Let(SelectSeq(cartLines, keep), LAMBDA kept : [i \in 1..Len(kept) |-> kept[i].id])

\* the check on the product handle alone, without the _FREE_ITEM tag
ExistingItemByHandle(cart, milestone) ==
    /\ cart.exists /\ cart.hasLines
    /\ \E i \in 1..Len(cart.nodes) : cart.nodes[i].handle = milestone.handle

\* the check comparing the merchandise id, not the product handle, to the milestone's handle
ExistingItemById(cart, milestone) ==
    /\ cart.exists /\ cart.hasLines
    /\ \E i \in 1..Len(cart.nodes) :
           /\ cart.nodes[i].merchandiseId = milestone.handle
           /\ SomeAttr(cart.nodes[i], "_FREE_ITEM", StrTrue)

\* the check "item is already in cart" of processFreeItems
ExistingItem(cart, milestone) ==
    /\ cart.exists /\ cart.hasLines
    /\ \E i \in 1..Len(cart.nodes) :
           /\ cart.nodes[i].handle = milestone.handle
           /\ SomeAttr(cart.nodes[i], "_FREE_ITEM", StrTrue)

RECURSIVE ItemsToAddUntilFailure(_, _, _, _)
\* the loop leaving at the first milestone it cannot resolve, instead of going on
ItemsToAddUntilFailure(requiredItems, i, cart, storefront) ==
    IF i > Len(requiredItems) THEN <<>>
    ELSE Let(requiredItems[i], LAMBDA milestone :
         Let(ItemsToAddUntilFailure(requiredItems, i + 1, cart, storefront), LAMBDA rest :
             IF milestone.handle = NoStr THEN rest
             ELSE IF ExistingItem(cart, milestone) THEN rest
             ELSE Let(resolveProductVariant(milestone.handle, milestone.variant, storefront),
                      LAMBDA resolved :
                  IF resolved = <<>> THEN <<>>
                  ELSE IF ~resolved[1].availableForSale THEN <<>>
                  ELSE <<[milestone |-> milestone, variant |-> resolved[1],
                          line |-> createFreeItemLine(resolved[1], milestone)]>> \o rest)))

RECURSIVE ItemsToAdd(_, _, _, _)
\* the loop over requiredItems of processFreeItems, from position i on
ItemsToAdd(requiredItems, i, cart, storefront) ==
    IF i > Len(requiredItems) THEN <<>>
    ELSE Let(requiredItems[i], LAMBDA milestone :
         Let(ItemsToAdd(requiredItems, i + 1, cart, storefront), LAMBDA rest :
             IF milestone.handle = NoStr THEN rest
             ELSE IF ExistingItem(cart, milestone) THEN rest
             ELSE Let(resolveProductVariant(milestone.handle, milestone.variant, storefront),
                      LAMBDA resolved :
                  IF resolved = <<>> THEN rest
                  ELSE IF ~resolved[1].availableForSale THEN rest
                  ELSE <<[milestone |-> milestone, variant |-> resolved[1],
                          line |-> createFreeItemLine(resolved[1], milestone)]>> \o rest)))

processFreeItems(requiredItems, cart, currentSubtotal, storefront) ==
    [itemsToRemove |-> IF cart.exists /\ cart.hasLines
                       THEN getFreeItemsToRemove(cart.nodes, currentSubtotal)
                       ELSE <<>>,
     itemsToAdd |-> ItemsToAdd(requiredItems, 1, cart, storefront)]

validateFreeItemOperations(operations) ==
    /\ \A i \in 1..Len(operations.itemsToAdd) :
           LET item == operations.itemsToAdd[i]
           IN  /\ item.milestone.handle # NoStr
               /\ item.variant.id # ""
               /\ item.variant.availableForSale
               /\ item.line.merchandiseId # ""
    /\ \A i \in 1..Len(operations.itemsToRemove) : operations.itemsToRemove[i] # <<>>

(***************************************************************************)
(* Cart perks library: what the evaluated state requires.                  *)
(***************************************************************************)
\* every freeItem milestone, achieved or not
getAllFreeItems(state) ==
    LET wanted(m) == m.type = "freeItem" /\ m.handle # NoStr
    IN  Let(SelectSeq(state.milestones, wanted), LAMBDA kept :
            [i \in 1..Len(kept) |->
                [threshold |-> kept[i].threshold, type |-> kept[i].type,
                 handle |-> kept[i].handle, title |-> kept[i].title,
                 variant |-> kept[i].variant]])

getRequiredFreeItems(state) ==
    LET wanted(m) == m.type = "freeItem" /\ m.achieved /\ m.handle # NoStr
    IN  Let(SelectSeq(state.milestones, wanted), LAMBDA kept :
            [i \in 1..Len(kept) |->
                [threshold |-> kept[i].threshold, type |-> kept[i].type,
                 handle |-> kept[i].handle, title |-> kept[i].title,
                 variant |-> kept[i].variant]])

shouldHaveFreeShipping(state) ==
    LET shipping == {i \in 1..Len(state.milestones) : state.milestones[i].type = "shipping"}
    IN  IF shipping = {} THEN FALSE
        ELSE state.milestones[CHOOSE i \in shipping : \A j \in shipping : i <= j].achieved

(***************************************************************************)
(* The cart route: processCartPerks, and the handlers that end with it.    *)
(***************************************************************************)
NoCalls == [updateAttributes |-> <<>>, addLines |-> <<>>, removeLines |-> <<>>]

MutationCalls == {"updateAttributes", "addLines", "removeLines"}

\* the three mutation calls without a try/catch of their own and without the one
\* around the pass: the first call that throws ends the pass and the exception leaves it
ExecuteCartUpdatesUncaught(context, shouldHaveShipping, needsAttributeUpdate, freeItemOperations) ==
    Let(<<Attr("__FREE_SHIPPING", IF shouldHaveShipping THEN StrTrue ELSE StrFalse)>>,
        LAMBDA attributes :
    Let(IF freeItemOperations # <<>>
        THEN [k \in 1..Len(freeItemOperations[1].itemsToAdd) |->
                 freeItemOperations[1].itemsToAdd[k].line]
        ELSE <<>>, LAMBDA linesToAdd :
    Let(IF freeItemOperations # <<>> THEN freeItemOperations[1].itemsToRemove ELSE <<>>,
        LAMBDA itemsToRemove :
    Let(needsAttributeUpdate /\ "updateAttributes" \in context.throwing, LAMBDA attrThrows :
    Let(~attrThrows /\ Len(linesToAdd) > 0 /\ "addLines" \in context.throwing,
        LAMBDA addThrows :
    Let(~attrThrows /\ ~addThrows /\ Len(itemsToRemove) > 0
        /\ "removeLines" \in context.throwing, LAMBDA removeThrows :
    Let([updateAttributes |-> IF needsAttributeUpdate THEN <<attributes>> ELSE <<>>,
         addLines |-> IF ~attrThrows /\ Len(linesToAdd) > 0 THEN <<linesToAdd>> ELSE <<>>,
         removeLines |-> IF ~attrThrows /\ ~addThrows /\ Len(itemsToRemove) > 0
                         THEN <<itemsToRemove>> ELSE <<>>],
        LAMBDA made :
    Let(IF made.addLines # <<>> /\ ~addThrows
        THEN StoreAddLines(context.lines, linesToAdd, 1) ELSE context.lines,
        LAMBDA afterAdd :
        [lines |-> IF made.removeLines # <<>> /\ ~removeThrows
                   THEN StoreRemoveLines(afterAdd, itemsToRemove) ELSE afterAdd,
         shipAttr |-> IF needsAttributeUpdate /\ ~attrThrows
                      THEN attributes[1].value ELSE context.shipAttr,
         calls |-> made,
         failed |-> {c \in context.throwing : made[c] # <<>>},
         thrown |-> {c \in context.throwing : made[c] # <<>>}]))))))))

\* the mutation calls with one addLines call for each free item instead of one for all
ExecuteCartUpdatesPerItem(context, shouldHaveShipping, needsAttributeUpdate, freeItemOperations) ==
    Let(<<Attr("__FREE_SHIPPING", IF shouldHaveShipping THEN StrTrue ELSE StrFalse)>>,
        LAMBDA attributes :
    Let(IF freeItemOperations # <<>>
        THEN [k \in 1..Len(freeItemOperations[1].itemsToAdd) |->
                 freeItemOperations[1].itemsToAdd[k].line]
        ELSE <<>>, LAMBDA linesToAdd :
    Let(IF freeItemOperations # <<>> THEN freeItemOperations[1].itemsToRemove ELSE <<>>,
        LAMBDA itemsToRemove :
    Let([updateAttributes |-> IF needsAttributeUpdate THEN <<attributes>> ELSE <<>>,
         addLines |-> [k \in 1..Len(linesToAdd) |-> <<linesToAdd[k]>>],
         removeLines |-> IF Len(itemsToRemove) > 0 THEN <<itemsToRemove>> ELSE <<>>],
        LAMBDA made :
    Let(IF made.addLines # <<>> /\ "addLines" \notin context.throwing
        THEN StoreAddLines(context.lines, linesToAdd, 1) ELSE context.lines,
        LAMBDA afterAdd :
        [lines |-> IF made.removeLines # <<>> /\ "removeLines" \notin context.throwing
                   THEN StoreRemoveLines(afterAdd, itemsToRemove) ELSE afterAdd,
         shipAttr |-> IF needsAttributeUpdate /\ "updateAttributes" \notin context.throwing
                      THEN attributes[1].value ELSE context.shipAttr,
         calls |-> made,
         failed |-> {c \in context.throwing : made[c] # <<>>},
         thrown |-> {}])))))

\* "Execute cart updates" of processCartPerks: the three guarded mutation calls, each in
\* its own try/catch. freeItemOperations is a sequence of at most one record: empty
\* for undefined. The result is the store after the calls, the calls made, those that
\* threw, and the exceptions that leave the pass: none, every call site catches its own.
ExecuteCartUpdates(context, shouldHaveShipping, needsAttributeUpdate, freeItemOperations) ==
    Let(<<Attr("__FREE_SHIPPING", IF shouldHaveShipping THEN StrTrue ELSE StrFalse)>>,
        LAMBDA attributes :
    Let(IF freeItemOperations # <<>>
        THEN [k \in 1..Len(freeItemOperations[1].itemsToAdd) |->
                 freeItemOperations[1].itemsToAdd[k].line]
        ELSE <<>>, LAMBDA linesToAdd :
    Let(IF freeItemOperations # <<>> THEN freeItemOperations[1].itemsToRemove ELSE <<>>,
        LAMBDA itemsToRemove :
    Let([updateAttributes |-> IF needsAttributeUpdate THEN <<attributes>> ELSE <<>>,
         addLines |-> IF Len(linesToAdd) > 0 THEN <<linesToAdd>> ELSE <<>>,
         removeLines |-> IF Len(itemsToRemove) > 0 THEN <<itemsToRemove>> ELSE <<>>],
        LAMBDA made :
    Let(IF made.addLines # <<>> /\ "addLines" \notin context.throwing
        THEN StoreAddLines(context.lines, linesToAdd, 1) ELSE context.lines,
        LAMBDA afterAdd :
        [lines |-> IF made.removeLines # <<>> /\ "removeLines" \notin context.throwing
                   THEN StoreRemoveLines(afterAdd, itemsToRemove) ELSE afterAdd,
         shipAttr |-> IF needsAttributeUpdate /\ "updateAttributes" \notin context.throwing
                      THEN attributes[1].value ELSE context.shipAttr,
         calls |-> made,
         failed |-> {c \in context.throwing : made[c] # <<>>},
         thrown |-> {}])))))

\* the stored attribute never found
CurrentShippingValueMissing(cartResult) == Undefined

\* the value the previous pass wrote, kept in the process, before the stored attribute
RememberedShippingValue(cartResult) ==
    IF calls.updateAttributes # <<>>
    THEN calls.updateAttributes[1][1].value
    ELSE IF \E k \in 1..Len(cartResult.attributes) :
                cartResult.attributes[k].key = "__FREE_SHIPPING"
         THEN FindAttr(cartResult.attributes, "__FREE_SHIPPING")
         ELSE Undefined

\* currentShippingAttr?.value
CurrentShippingValue(cartResult) ==
    IF \E k \in 1..Len(cartResult.attributes) : cartResult.attributes[k].key = "__FREE_SHIPPING"
    THEN FindAttr(cartResult.attributes, "__FREE_SHIPPING")
    ELSE Undefined

\* the variant of the pass with the URL parameter taken whenever it is present
PassVariantAnyUrl(context, request) ==
    IF request.cart_variant # NoStr THEN request.cart_variant
    ELSE IF context.session = NoStr \/ context.session = "" THEN "A"
    ELSE context.session

\* the variant of the pass: the session's feature value or 'A', unless the URL overrides it
PassVariant(context, request) ==
    IF request.cart_variant \in {"A", "B"} THEN request.cart_variant
    ELSE IF context.session = NoStr \/ context.session = "" THEN "A"
    ELSE context.session

\* context: the cart store (lines, shipAttr), the storefront client, the session's
\* cart_perks_variant and the mutation calls that throw in this request.
processCartPerks(cartResult, context, action, request) ==
    LET untouched == [lines |-> context.lines, shipAttr |-> context.shipAttr,
                      calls |-> NoCalls, failed |-> {}, thrown |-> {}]
    IN  IF action = "CartPerksUpdate" THEN untouched
        ELSE IF ~cartResult.exists THEN untouched
        ELSE
        Let(calculateCartPerksState(cartResult, PassVariant(context, request)),
            LAMBDA cartPerksState :
        Let(shouldHaveFreeShipping(cartPerksState), LAMBDA shouldHaveShipping :
        Let(CurrentShippingValue(cartResult), LAMBDA currentValue :
        Let(\/ shouldHaveShipping /\ currentValue # StrTrue
            \/ ~shouldHaveShipping /\ currentValue = StrTrue, LAMBDA needsAttributeUpdate :
        Let(getRequiredFreeItems(cartPerksState), LAMBDA requiredFreeItems :
        Let(IF Len(requiredFreeItems) > 0
            THEN <<processFreeItems(requiredFreeItems, cartResult, cartPerksState.subtotal,
                                    context.storefront)>>
            ELSE <<>>, LAMBDA freeItemOperations :
            IF freeItemOperations # <<>> /\ ~validateFreeItemOperations(freeItemOperations[1])
            THEN untouched
            ELSE ExecuteCartUpdates(context, shouldHaveShipping, needsAttributeUpdate,
                                    freeItemOperations)))))))

\* an exception left the handler: the framework answers with a server error
ServerErrorResponse == [kind |-> "error", status |-> 500]

\* loader(): return cartData, the cart fetched before the pass
loaderResponse(cartData) == [kind |-> "loader", status |-> 200, cart |-> cartData]

\* the response of action() carrying the cart as the pass has left it
actionResponseAfterPass(cartResult, reconciled) ==
    [kind |-> "action", status |-> 200, cart |-> reconciled, errors |-> <<>>,
     warnings |-> <<>>]

\* action(): data({cart: cartResult, errors, warnings, ...}, {status, headers}) with the
\* cart, errors and warnings of the result of the user's mutation
actionResponse(cartResult, reconciled) ==
    [kind |-> "action", status |-> 200, cart |-> cartResult, errors |-> <<>>,
     warnings |-> <<>>]

\* the tail of action() and loader(): cart.get(), then processCartPerks on it.
\* Each mutation call the pass makes either returns or throws.  The handler returns its
\* response unless an exception leaves the pass: then the request ends in a server error.
RunPass(exists, ls, name) ==
    \E freshCart \in {CartGet(exists, ls, shipAttr)} :
    \E context \in {[lines |-> ls, shipAttr |-> shipAttr, storefront |-> catalog,
                     session |-> variant, throwing |-> {}]} :
    \E request \in {[cart_variant |-> urlVariant]} :
    \E quiet \in {processCartPerks(freshCart, context, name, request)} :
    \E throwing \in SUBSET {c \in MutationCalls : quiet.calls[c] # <<>>} :
    \E r \in {IF throwing = {} THEN quiet
               ELSE processCartPerks(freshCart, [context EXCEPT !.throwing = throwing],
                                     name, request)} :
        /\ hasCart' = exists
        /\ lines' = r.lines
        /\ shipAttr' = r.shipAttr
        /\ calls' = r.calls
        /\ failed' = r.failed
        /\ op' = IF r.thrown = {} THEN name ELSE "ServerError"
        /\ returned' = IF r.thrown # {} THEN ServerErrorResponse
                       ELSE IF name = "PageLoad" THEN loaderResponse(freshCart)
                       ELSE actionResponse(freshCart, CartGet(exists, r.lines, r.shipAttr))
        /\ UNCHANGED <<variant, urlVariant, catalog, calcCart, calcOut, discountCodes, form, resolveCall,
                   flags>>

LineInput(merchandiseId, attributes) ==
    [merchandiseId |-> merchandiseId, quantity |-> 1, attributes |-> attributes]

\* what the add-to-cart forms of the storefront submit
FormInputs == {LineInput("tee/std", <<>>), LineInput("cap/std", <<>>)}

\* action(), CartForm.ACTIONS.LinesAdd
ActionLinesAdd(inputs) ==
    \E input \in inputs :
        \E added \in {StoreAddLine(lines, input)} :
            /\ \A l \in added : l.quantity <= MaxQty
            /\ RunPass(TRUE, added, "LinesAdd")

\* action(), CartForm.ACTIONS.LinesUpdate, from the quantity buttons of a paid line
ActionLinesUpdate ==
    \E l \in lines :
        \E q \in {l.quantity - 1, l.quantity + 1} :
            /\ ~SomeAttr(l, "_FREE_ITEM", StrTrue)
            /\ q >= 1 /\ q <= MaxQty
            /\ \E updated \in {StoreUpdateLine(lines, l.id, q)} :
                   RunPass(TRUE, updated, "LinesUpdate")

\* action(), CartForm.ACTIONS.LinesRemove, from the remove button of a line
ActionLinesRemove ==
    \E l \in lines :
        \E removed \in {StoreRemoveLines(lines, <<l.id>>)} :
            RunPass(TRUE, removed, "LinesRemove")

\* loader(): the pass on page load
Loader == \E exists \in {hasCart} : RunPass(exists, lines, "PageLoad")

\* the experiment assigns the session's cart_perks_variant; the URL may carry cart_variant
VariantSources ==
    {[session |-> NoStr, url |-> NoStr], [session |-> "C", url |-> NoStr],
     [session |-> "A", url |-> "B"], [session |-> "B", url |-> "C"]}

ChooseVariant ==
    /\ \E src \in VariantSources :
           /\ <<src.session, src.url>> # <<variant, urlVariant>>
           /\ variant' = src.session
           /\ urlVariant' = src.url
    /\ op' = "ChooseVariant"
    /\ calls' = NoCalls
    /\ failed' = {}
    /\ returned' = NoResponse
    /\ UNCHANGED <<hasCart, lines, shipAttr, catalog, calcCart, calcOut, discountCodes, form, resolveCall,
                   flags>>

\* the catalog changes: stock runs out, the storefront API fails or recovers
CatalogChange ==
    /\ \E c \in Catalogs : c # catalog /\ catalog' = c
    /\ op' = "CatalogChange"
    /\ calls' = NoCalls
    /\ failed' = {}
    /\ returned' = NoResponse
    /\ UNCHANGED <<hasCart, lines, shipAttr, variant, urlVariant, calcCart, calcOut, discountCodes, form, resolveCall,
                   flags>>

Init ==
    /\ hasCart = FALSE
    /\ lines = {}
    /\ shipAttr = Undefined
    /\ variant = NoStr
    /\ urlVariant = NoStr
    /\ catalog = CatalogAllFine
    /\ op = "none"
    /\ calls = NoCalls
    /\ failed = {}
    /\ calcCart = Snapshot(FALSE, FALSE, <<>>, <<>>)
    /\ calcOut = [done |-> FALSE]
    /\ discountCodes = <<>>
    /\ form = NoForm
    /\ resolveCall = NoResolve
    /\ flags = NoFlags
    /\ returned = NoResponse

Next ==
    \/ ActionLinesAdd(FormInputs)
    \/ ActionLinesUpdate
    \/ ActionLinesRemove
    \/ Loader
    \/ ChooseVariant
    \/ CatalogChange

Spec == Init /\ [][Next]_vars

\* what a client can post to LinesAdd: the handler passes inputs.lines to cart.addLines
\* as they come, attributes included
PostedInputs ==
    FormInputs
    \cup {LineInput("black-sunnies/black",
                    <<Attr("_FREE_ITEM", StrTrue),
                      Attr("_FREE_ITEM_TYPE", HandleChars("black-sunnies")),
                      Attr("_FREE_ITEM_THRESHOLD", <<"1", "5", "0">>)>>)}

NextPosted ==
    \/ ActionLinesAdd(PostedInputs)
    \/ ActionLinesUpdate
    \/ ActionLinesRemove
    \/ Loader
    \/ ChooseVariant

SpecPosted == Init /\ [][NextPosted]_vars

(***************************************************************************)
(* The pass on any cart: the session starts on a cart drawn from bounded   *)
(* sets of lines, and the loader's pass runs on it, again and again.       *)
(***************************************************************************)
\* a line of the store of quantity 1 with the attributes it was added with
StoredLine(merchandiseId, attributes) ==
    Line(LineId(LineInput(merchandiseId, attributes)), ProductHandle(merchandiseId),
         merchandiseId, 1, LineCostOf(merchandiseId, 1), TRUE, attributes)

\* the reserved tags of a free line, with the threshold as it is stored
FreeTags(handle, threshold) ==
    <<Attr("_FREE_ITEM", StrTrue), Attr("_FREE_ITEM_TYPE", HandleChars(handle)),
      Attr("_FREE_ITEM_THRESHOLD", threshold)>>

AnyLines ==
    {StoredLine("tee/std", <<>>), StoredLine("cap/std", <<>>),
     StoredLine("scarf/std", <<>>), StoredLine("jacket/std", <<>>),
     StoredLine("black-sunnies/black", <<>>),
     StoredLine("black-sunnies/black", <<Attr("_FREE_ITEM_THRESHOLD", <<"1", "5", "0">>)>>),
     StoredLine("black-sunnies/black", FreeTags("black-sunnies", <<"1", "0", "0">>)),
     StoredLine("black-sunnies/black",
                <<Attr("_FREE_ITEM", StrTrue),
                  Attr("_FREE_ITEM_TYPE", HandleChars("black-sunnies"))>>),
     StoredLine("frontpack/green", FreeTags("frontpack", <<"1", "5", "0">>))}

AnyCarts == {ls \in SUBSET AnyLines : Cardinality(ls) <= MaxCartLines}

InitAnyCart ==
    /\ hasCart = TRUE
    /\ lines \in AnyCarts
    /\ shipAttr \in {Undefined, StrTrue, StrFalse}
    /\ variant \in {NoStr, "B"}
    /\ urlVariant = NoStr
    /\ catalog \in Catalogs
    /\ op = "none"
    /\ calls = NoCalls
    /\ failed = {}
    /\ calcCart = Snapshot(FALSE, FALSE, <<>>, <<>>)
    /\ calcOut = [done |-> FALSE]
    /\ discountCodes = <<>>
    /\ form = NoForm
    /\ resolveCall = NoResolve
    /\ flags = NoFlags
    /\ returned = NoResponse

NextAnyCart == Loader

SpecAnyCart == InitAnyCart /\ [][NextAnyCart]_vars

(***************************************************************************)
(* The pass on any cart when the catalog answers with a variant whose id   *)
(* is empty: the plan then holds an add that validation rejects.           *)
(***************************************************************************)
FrontpackGreenNoId == ProductVariant("", TRUE, "Green", "Green")

CatalogNoVariantId ==
    [h \in {"black-sunnies", "frontpack"} |->
        IF h = "black-sunnies"
        THEN Response(FALSE, <<Product(<<SunniesBlack(TRUE)>>, <<SunniesBlack(TRUE)>>)>>)
        ELSE Response(FALSE, <<Product(<<FrontpackRed>>, <<FrontpackRed, FrontpackGreenNoId>>)>>)]

InitNoVariantId ==
    /\ hasCart = TRUE
    /\ lines \in AnyCarts
    /\ shipAttr \in {Undefined, StrTrue, StrFalse}
    /\ variant \in {NoStr, "B"}
    /\ urlVariant = NoStr
    /\ catalog = CatalogNoVariantId
    /\ op = "none"
    /\ calls = NoCalls
    /\ failed = {}
    /\ calcCart = Snapshot(FALSE, FALSE, <<>>, <<>>)
    /\ calcOut = [done |-> FALSE]
    /\ discountCodes = <<>>
    /\ form = NoForm
    /\ resolveCall = NoResolve
    /\ flags = NoFlags
    /\ returned = NoResponse

SpecNoVariantId == InitNoVariantId /\ [][NextAnyCart]_vars

(***************************************************************************)
(* The calculators on their own: a cart snapshot drawn from bounded sets,  *)
(* evaluated once by the server copy and by the client copy.               *)
(***************************************************************************)
CalcCosts ==
    {Cost("noCost", Undefined), Cost("noTotalAmount", Undefined), Cost("noAmount", Undefined),
     Cost("amount", <<>>),
     Cost("amount", <<"a", "b", "c">>),
     Cost("amount", <<"0", ".", "0", "1">>),
     Cost("amount", <<"4", "9", ".", "9", "9">>),
     Cost("amount", <<"5", "0", ".", "0">>),
     Cost("amount", <<"1", "0", "0", ".", "0">>)}

CalcAttributes ==
    {[hasAttrs |-> FALSE, attributes |-> <<>>],
     [hasAttrs |-> TRUE, attributes |-> <<Attr("_FREE_ITEM", StrFalse)>>],
     [hasAttrs |-> TRUE,
      attributes |-> <<Attr("_FREE_ITEM", StrTrue),
                       Attr("_FREE_ITEM_TYPE", <<"x">>),
                       Attr("_FREE_ITEM_THRESHOLD", <<"1", "0", "0">>)>>]}

CalcLines ==
    {Line(<<"tee/std", a.attributes>>, "tee", "tee/std", 1, c, a.hasAttrs, a.attributes) : c \in CalcCosts, a \in CalcAttributes}

CalcCarts ==
    {Snapshot(FALSE, FALSE, <<>>, <<>>), Snapshot(TRUE, FALSE, <<>>, <<>>)}
    \cup {Snapshot(TRUE, TRUE, nodes, <<>>) :
              nodes \in UNION {[1..n -> CalcLines] : n \in 0..MaxCalcLines}}

VariantIds == {"A", "B", "C"}

NoCalc == [done |-> FALSE]

InitCalc ==
    /\ calcCart \in CalcCarts
    /\ variant \in VariantIds
    /\ urlVariant = NoStr
    /\ calcOut = NoCalc
    /\ hasCart = FALSE
    /\ lines = {}
    /\ shipAttr = Undefined
    /\ catalog = <<>>
    /\ op = "none"
    /\ calls = <<>>
    /\ failed = {}
    /\ discountCodes = <<>>
    /\ form = NoForm
    /\ resolveCall = NoResolve
    /\ flags = NoFlags
    /\ returned = NoResponse

Evaluate ==
    /\ ~calcOut.done
    /\ calcOut' = [done |-> TRUE,
                   server |-> calculateCartPerksState(calcCart, variant),
                   client |-> useCartPerksController(calcCart, variant)]
    /\ UNCHANGED <<hasCart, lines, shipAttr, variant, urlVariant, catalog, op, calls, failed, calcCart,
                   discountCodes, form, resolveCall, flags,
                   returned>>

NextCalc == Evaluate

SpecCalc == InitCalc /\ [][NextCalc]_vars

(***************************************************************************)
(* The resolver on its own: a handle, a selector and a storefront drawn    *)
(* from bounded sets, resolved once.                                       *)
(***************************************************************************)
FrontpackGreenSoldOut == ProductVariant("frontpack/green", FALSE, "Green", "Green")

\* the green frontpack is sold out, the red one is the default
CatalogGreenSoldOut ==
    [h \in {"black-sunnies", "frontpack"} |->
        IF h = "black-sunnies"
        THEN Response(FALSE, <<Product(<<SunniesBlack(TRUE)>>, <<SunniesBlack(TRUE)>>)>>)
        ELSE Response(FALSE, <<Product(<<FrontpackRed>>, <<FrontpackRed, FrontpackGreenSoldOut>>)>>)]

\* products without any variant: selectedOrFirstAvailableVariant is null
CatalogNoVariant ==
    [h \in {"black-sunnies", "frontpack"} |-> Response(FALSE, <<Product(<<>>, <<>>)>>)]

ResolveStorefronts == Catalogs \cup {CatalogGreenSoldOut, CatalogNoVariant, NoStorefront}

ResolveSelectors == {NoStr, "green", "Green", "GREEN", "red", "black", "blue"}

ResolveCalls ==
    {[done |-> FALSE, handle |-> h, variantSpec |-> v, storefront |-> c, result |-> <<>>] :
        h \in {"black-sunnies", "frontpack"}, v \in ResolveSelectors, c \in ResolveStorefronts}

InitResolve ==
    /\ hasCart = FALSE
    /\ lines = {}
    /\ shipAttr = Undefined
    /\ variant = NoStr
    /\ urlVariant = NoStr
    /\ catalog = CatalogAllFine
    /\ op = "none"
    /\ calls = NoCalls
    /\ failed = {}
    /\ calcCart = Snapshot(FALSE, FALSE, <<>>, <<>>)
    /\ calcOut = [done |-> FALSE]
    /\ discountCodes = <<>>
    /\ form = NoForm
    /\ resolveCall \in ResolveCalls
    /\ flags = NoFlags
    /\ returned = NoResponse

Resolve ==
    /\ ~resolveCall.done
    /\ resolveCall' = [resolveCall EXCEPT
                           !.done = TRUE,
                           !.result = resolveProductVariant(resolveCall.handle,
                                                            resolveCall.variantSpec,
                                                            resolveCall.storefront)]
    /\ op' = "resolveProductVariant"
    /\ UNCHANGED <<hasCart, lines, shipAttr, variant, urlVariant, catalog, calls, failed, calcCart,
                   calcOut, discountCodes, form, flags,
                   returned>>

NextResolve == Resolve

SpecResolve == InitResolve /\ [][NextResolve]_vars

(***************************************************************************)
(* Bundles: the cart route that toggles the BUNDLE20 discount code, and    *)
(* the cart drawer's grouping of the lines of a bundle.                    *)
(***************************************************************************)
\* line.attributes?.find(attr => attr.key === k)?.value
AttrValue(line, k) == IF HasKey(line, k) THEN FindAttr(line.attributes, k) ELSE NoStr

\* a string in a condition: undefined and the empty string are falsy
Truthy(s) == s # NoStr /\ s # ""

\* a mistaken count: every line counts once, whatever its quantity
QuantityAsOne(line) == 1

\* line.quantity || 1
QuantityOrOne(line) == IF line.quantity = 0 THEN 1 ELSE line.quantity

NoBundles == [b \in {} |-> 0]

\* bundles[bundleId] = (bundles[bundleId] || 0) + quantity
CountInto(bundles, bundleId, quantity) ==
    [b \in DOMAIN bundles \cup {bundleId} |->
        IF b = bundleId
        THEN (IF b \in DOMAIN bundles THEN bundles[b] ELSE 0) + quantity
        ELSE bundles[b]]

RECURSIVE BundleCounts(_, _, _)
\* the forEach of validateRemainingBundles, from line i on
BundleCounts(nodes, i, bundles) ==
    IF i > Len(nodes) THEN bundles
    ELSE Let(nodes[i], LAMBDA line :
         Let(IF /\ line.hasAttrs
                /\ Truthy(AttrValue(line, "_BUNDLE_ID"))
                /\ AttrValue(line, "_BUNDLE_NAME") = "men-t-shirt"
             THEN CountInto(bundles, AttrValue(line, "_BUNDLE_ID"), QuantityOrOne(line))
             ELSE bundles,
             LAMBDA counted : BundleCounts(nodes, i + 1, counted)))

validateRemainingBundles(nodes) ==
    IF Len(nodes) = 0
    THEN [hasValidBundles |-> FALSE, totalValidBundles |-> 0, allBundleCounts |-> NoBundles]
    ELSE Let(BundleCounts(nodes, 1, NoBundles), LAMBDA bundles :
         Let({b \in DOMAIN bundles : bundles[b] = 3}, LAMBDA validBundles :
             [hasValidBundles |-> validBundles # {},
              totalValidBundles |-> Cardinality(validBundles),
              allBundleCounts |-> bundles]))

\* a mistaken bucket: lines grouped by the name of their bundle
BucketByName(line) == AttrValue(line, "_BUNDLE_NAME")

\* the key of a line's bucket in groupCartLines: bundles[bundleId]
Bucket(line) == AttrValue(line, "_BUNDLE_ID")

NoGroups == [bundles |-> [b \in {} |-> 0], individualLines |-> <<>>]

\* the body of the forEach of groupCartLines
GroupLine(acc, line) ==
    Let(AttrValue(line, "_BUNDLE_NAME"), LAMBDA bundleName :
    Let(AttrValue(line, "_BUNDLE_ID"), LAMBDA bundleId :
    Let(Bucket(line), LAMBDA key :
        IF Truthy(bundleName) /\ Truthy(bundleId)
        THEN [acc EXCEPT !.bundles =
                 [b \in DOMAIN acc.bundles \cup {key} |->
                     IF b = key
                     THEN IF b \in DOMAIN acc.bundles
                          THEN [acc.bundles[b] EXCEPT !.lines = Append(@, line)]
                          ELSE [bundleId |-> bundleId, bundleName |-> bundleName,
                                lines |-> <<line>>]
                     ELSE acc.bundles[b]]]
        ELSE [acc EXCEPT !.individualLines = Append(@, line)])))

RECURSIVE GroupLines(_, _, _)
GroupLines(nodes, i, acc) ==
    IF i > Len(nodes) THEN acc
    ELSE Let(GroupLine(acc, nodes[i]), LAMBDA next : GroupLines(nodes, i + 1, next))

groupCartLines(nodes) == GroupLines(nodes, 1, NoGroups)

RECURSIVE SumQuantities(_, _)
SumQuantities(ls, i) ==
    IF i > Len(ls) THEN 0 ELSE QuantityOrOne(ls[i]) + SumQuantities(ls, i + 1)

\* BundleGroup: totalItemsInBundle
totalItemsInBundle(bundle) == SumQuantities(bundle.lines, 1)

\* BundleGroup: isCompleteBundle
isCompleteBundle(bundle) == totalItemsInBundle(bundle) = 3

\* line.merchandise.price?.amount: the store's unit price of the line's merchandise
MerchandisePrice(line) == FormatAmount(UnitPrice(line.merchandiseId))

RECURSIVE ReduceTotalPrice(_, _, _)
\* bundle.lines.reduce((sum, line) => sum + parseFloat(line.cost?.totalAmount?.amount || '0'), 0)
ReduceTotalPrice(ls, i, sum) ==
    IF i > Len(ls) THEN sum
    ELSE Let(JsAdd(sum, ParseFloat(OrZero(AmountOf(ls[i])))), LAMBDA next :
             ReduceTotalPrice(ls, i + 1, next))

RECURSIVE ReduceOriginalPrice(_, _, _)
\* bundle.lines.reduce((sum, line) => sum + parseFloat(line.merchandise.price?.amount || '0'), 0)
ReduceOriginalPrice(ls, i, sum) ==
    IF i > Len(ls) THEN sum
    ELSE Let(JsAdd(sum, ParseFloat(OrZero(MerchandisePrice(ls[i])))), LAMBDA next :
             ReduceOriginalPrice(ls, i + 1, next))

\* groupCartLines, "Calculate bundle summaries": the prices of one bundle group
BundleSummary(bundle) ==
    Let(ReduceTotalPrice(bundle.lines, 1, Units(0)), LAMBDA totalPrice :
    Let(ReduceOriginalPrice(bundle.lines, 1, Units(0)), LAMBDA originalPrice :
        [totalPrice |-> totalPrice, originalPrice |-> originalPrice,
         savings |-> JsSub(originalPrice, totalPrice)]))

\* cart.discountCodes?.some(code => code.code === c)
HasCode(codes, c) == \E i \in 1..Len(codes) : codes[i] = c

\* codes.filter(code => code.code !== c)
WithoutCode(codes, c) == SelectSeq(codes, LAMBDA x : x # c)

BundleVariants == {"tee/std", "tee/blue", "tee/red"}

BundleIds == {"bundle-1", "bundle-2"}

BundleAttributes(bundleId) ==
    <<Attr("_BUNDLE_NAME", "men-t-shirt"), Attr("_BUNDLE_ID", bundleId)>>

\* CartProgressBar: one line of quantity 1 per chosen variant, all tagged with the
\* name of the bundle and the id generated for this click
bundleCartLines(variants, currentBundleId) ==
    [i \in 1..Len(variants) |-> LineInput(variants[i], BundleAttributes(currentBundleId))]

\* generateBundleId(): an id no line of the cart carries
FreshBundleIds(ls) == {b \in BundleIds : \A l \in ls : AttrValue(l, "_BUNDLE_ID") # b}

\* what the add-to-cart forms submit: a product on its own, or the three lines of a
\* bundle (three times the selected variant, or the three variants of the builder)
BundleFormInputs(ls) ==
    {<<LineInput("cap/std", <<>>)>>}
    \cup {bundleCartLines(variants, b) :
              variants \in [1..3 -> BundleVariants], b \in FreshBundleIds(ls)}

\* what a client can post besides: one tagged line alone, and a line tagged as the
\* base format of TEST1.md tags it, with the name of the bundle only
BundlePostedInputs ==
    {<<LineInput("tee/std", BundleAttributes(b))>> : b \in BundleIds}
    \cup {<<LineInput("tee/std", <<Attr("_BUNDLE_NAME", "men-t-shirt")>>)>>}

RECURSIVE TotalQuantity(_)
TotalQuantity(ls) ==
    IF ls = {} THEN 0
    ELSE LET l == CHOOSE x \in ls : TRUE IN l.quantity + TotalQuantity(ls \ {l})

\* the end of the three line handlers of the bundle route: the store's cart and codes
BundleResult(name, ls, codes) ==
    /\ hasCart' = TRUE
    /\ lines' = ls
    /\ discountCodes' = codes
    /\ op' = name
    /\ calls' = NoCalls
    /\ failed' = {}
    /\ UNCHANGED <<shipAttr, variant, urlVariant, catalog, calcCart, calcOut, form, resolveCall, flags,
                   returned>>

\* action(), CartForm.ACTIONS.LinesAdd of the bundle route
BundleLinesAdd(inputs) ==
    \E ins \in inputs :
    \E added \in {StoreAddLines(lines, ins, 1)} :
    \E hasBundleItems \in {\E i \in 1..Len(ins) : \E j \in 1..Len(ins[i].attributes) :
                               ins[i].attributes[j].key = "_BUNDLE_NAME"} :
    \E hasBundleDiscount \in {HasCode(discountCodes, "BUNDLE20")} :
        /\ TotalQuantity(added) <= MaxItems
        /\ BundleResult("LinesAdd", added,
                        IF hasBundleItems /\ ~hasBundleDiscount
                        THEN <<"BUNDLE20">>
                        ELSE discountCodes)

\* the branch that LinesUpdate and LinesRemove share: validate the remaining bundles,
\* then remove BUNDLE20 or add it
ToggleBundleDiscount(ls, codes) ==
    Let(validateRemainingBundles(Nodes(ls)), LAMBDA remainingBundles :
    Let(remainingBundles.hasValidBundles, LAMBDA shouldHaveBundleDiscount :
    Let(HasCode(codes, "BUNDLE20"), LAMBDA currentlyHasBundleDiscount :
        IF currentlyHasBundleDiscount /\ ~shouldHaveBundleDiscount
        THEN WithoutCode(codes, "BUNDLE20")
        ELSE IF ~currentlyHasBundleDiscount /\ shouldHaveBundleDiscount
             THEN codes \o <<"BUNDLE20">>
             ELSE codes)))

\* action(), CartForm.ACTIONS.LinesUpdate of the bundle route, from the quantity buttons
BundleLinesUpdate ==
    \E l \in lines :
    \E q \in {l.quantity - 1, l.quantity + 1} :
    \E updated \in {StoreUpdateLine(lines, l.id, q)} :
        /\ q >= 1
        /\ TotalQuantity(updated) <= MaxItems
        /\ BundleResult("LinesUpdate", updated, ToggleBundleDiscount(updated, discountCodes))

\* the line ids of a bundle group of the drawer
GroupLineIds(group) == [i \in 1..Len(group.lines) |-> group.lines[i].id]

\* action(), CartForm.ACTIONS.LinesRemove of the bundle route, from the remove button of
\* a line or of a whole bundle group
BundleLinesRemove ==
    \E groups \in {groupCartLines(Nodes(lines)).bundles} :
    \E lineIds \in {<<l.id>> : l \in lines}
                   \cup {GroupLineIds(groups[b]) : b \in DOMAIN groups} :
    \E removed \in {StoreRemoveLines(lines, lineIds)} :
        BundleResult("LinesRemove", removed, ToggleBundleDiscount(removed, discountCodes))

\* action(), CartForm.ACTIONS.DiscountCodesUpdate: the code of the form, then the codes
\* the cart already carries
DiscountCodesUpdate ==
    \E formDiscountCode \in {"WELCOME10"} :
        /\ hasCart
        /\ ~HasCode(discountCodes, formDiscountCode)
        /\ discountCodes' = <<formDiscountCode>> \o discountCodes
        /\ op' = "DiscountCodesUpdate"
        /\ calls' = NoCalls
        /\ failed' = {}
        /\ UNCHANGED <<hasCart, lines, shipAttr, variant, urlVariant, catalog, calcCart, calcOut,
                       form, resolveCall, flags,
                   returned>>

NextBundle ==
    \/ BundleLinesAdd(BundleFormInputs(lines) \cup BundlePostedInputs)
    \/ BundleLinesUpdate
    \/ BundleLinesRemove
    \/ DiscountCodesUpdate

SpecBundle == Init /\ [][NextBundle]_vars

\* the same route when only the storefront's forms post to it
NextBundleForms ==
    \/ BundleLinesAdd(BundleFormInputs(lines))
    \/ BundleLinesUpdate
    \/ BundleLinesRemove
    \/ DiscountCodesUpdate

SpecBundleForms == Init /\ [][NextBundleForms]_vars

\* lines a client can post with any tags: both tags with the name of this bundle or of
\* another one, the id alone, the name alone
BundleNames == {"men-t-shirt", "women-t-shirt"}

BundleTaggedInputs ==
    {<<LineInput("tee/std", <<Attr("_BUNDLE_NAME", n), Attr("_BUNDLE_ID", b)>>)>> :
         n \in BundleNames, b \in BundleIds}
    \cup {<<LineInput("tee/std", <<Attr("_BUNDLE_ID", b)>>)>> : b \in BundleIds}
    \cup {<<LineInput("tee/std", <<Attr("_BUNDLE_NAME", n)>>)>> : n \in BundleNames}

\* the bundle route when lines with any tags are posted to it
NextBundleNames ==
    \/ BundleLinesAdd(BundleTaggedInputs)
    \/ BundleLinesUpdate
    \/ BundleLinesRemove

SpecBundleNames == Init /\ [][NextBundleNames]_vars

(***************************************************************************)
(* The product form's 3-Pack button (CartProgressBar.tsx, ProductForm).    *)
(* The form holds React state; what the button submits is what the last    *)
(* render put into the cart form.  A state update asked for by a handler   *)
(* takes effect at the next render.                                        *)
(***************************************************************************)
MaxClicks == 2

\* allVariants of the product; selectedVariant may be null
FormVariants == {"tee/std", "tee/blue", "tee/red"}

SelectableVariants == {NoStr, "tee/std", "tee/red"}

\* variant?.availableForSale
AvailableForSale(v) == v \in {"tee/std", "tee/blue"}

\* the values generateBundleId() returns, one per call
GeneratedIds == <<"bundle-1", "bundle-2", "bundle-3", "bundle-4">>

\* availability judged on the selected variant alone, the builder's slots ignored
areSelectedVariantAvailable(f) == AvailableForSale(f.selectedVariant)

areBundleVariantsAvailable(f) ==
    IF ~f.showBundleBuilder THEN AvailableForSale(f.selectedVariant)
    ELSE \A i \in 1..Len(f.bundleVariants) : AvailableForSale(f.bundleVariants[i])

\* disabled={!selectedVariant || !bundleAvailable}
BundleButtonDisabled(f) == f.selectedVariant = NoStr \/ ~areBundleVariantsAvailable(f)

\* the useMemo that computes bundleCartLines from the state of this render
BundleCartLinesMemo(f) ==
    IF f.selectedVariant = NoStr \/ ~areBundleVariantsAvailable(f) THEN <<>>
    ELSE LET variants == IF f.showBundleBuilder THEN f.bundleVariants
                         ELSE <<f.selectedVariant, f.selectedVariant, f.selectedVariant>>
         IN  bundleCartLines(SelectSeq(variants, LAMBDA v : v # NoStr),
                             IF f.currentBundleId # "" THEN f.currentBundleId
                             ELSE "temp-bundle-id")

\* the fetcher of the cart form: idle, or submitting the lines of the form
IdleFetcher == [state |-> "idle", lines |-> <<>>]

\* a render: the cart form receives the lines and the button its disabled flag
Rendered(f) ==
    [f EXCEPT !.lines = BundleCartLinesMemo(f), !.disabled = BundleButtonDisabled(f)]

\* the first render of the form for a selected variant
MountedForm(selected) ==
    Rendered([mounted |-> TRUE,
              selectedVariant |-> selected,
              showBundleBuilder |-> FALSE,
              bundleVariants |-> <<selected, selected, selected>>,
              currentBundleId |-> "",
              setCurrentBundleId |-> <<>>,
              timer |-> FALSE,
              lines |-> <<>>,
              disabled |-> TRUE,
              submitting |-> FALSE,
              fetcher |-> IdleFetcher,
              clicks |-> 0,
              postedIds |-> <<>>])

FormStep(name, f) ==
    /\ form' = f
    /\ op' = name
    /\ UNCHANGED <<hasCart, lines, shipAttr, variant, urlVariant, catalog, calls, failed,
                   calcCart, calcOut, discountCodes, resolveCall, flags,
                   returned>>

\* the page selects another variant; the effect on selectedVariant resets the builder
SelectVariant ==
    /\ ~form.submitting
    /\ \E selected \in SelectableVariants \ {form.selectedVariant} :
           FormStep("SelectVariant",
                    Rendered([form EXCEPT
                        !.selectedVariant = selected,
                        !.bundleVariants = IF selected # NoStr
                                           THEN <<selected, selected, selected>>
                                           ELSE @]))

\* "Mix & Match colors/sizes" / "Use same variant"
ToggleBundleBuilder ==
    /\ ~form.submitting
    /\ FormStep("ToggleBundleBuilder",
                Rendered([form EXCEPT !.showBundleBuilder = ~@]))

\* updateBundleSelection(index, field, value): findVariantByOptions gives a variant of
\* the product, or the selected variant when none matches
updateBundleSelection ==
    /\ ~form.submitting
    /\ form.showBundleBuilder
    /\ \E index \in 1..3 :
       \E newVariant \in (FormVariants \cup {form.selectedVariant}) \ {form.bundleVariants[index]} :
           FormStep("updateBundleSelection",
                    Rendered([form EXCEPT !.bundleVariants[index] = newVariant]))

\* the button disabled by its own prop alone, the state of the fetcher ignored
isDisabledByPropOnly(f) == f.disabled

\* AddToCartButton: isButtonDisabled = disabled || fetcher.state !== 'idle'
isButtonDisabled(f) == f.disabled \/ f.fetcher.state # "idle"

\* the 3-Pack button's onClick: a new id is asked for; the click then submits the form.
\* The id asked for by an earlier click has been rendered by then.
ClickBundleButton ==
    /\ ~isButtonDisabled(form)
    /\ ~form.submitting
    /\ form.setCurrentBundleId \in {<<>>, <<"">>}
    /\ form.clicks < MaxClicks
    /\ FormStep("ClickBundleButton",
                [form EXCEPT !.setCurrentBundleId = <<GeneratedIds[form.clicks + 1]>>,
                             !.clicks = @ + 1,
                             !.submitting = TRUE])

\* React renders with the new currentBundleId; the effect on it clears the timer of the
\* previous id and starts one when the id is not empty
RenderBundleId ==
    /\ form.setCurrentBundleId # <<>>
    /\ FormStep("RenderBundleId",
                Rendered([form EXCEPT !.currentBundleId = form.setCurrentBundleId[1],
                                      !.setCurrentBundleId = <<>>,
                                      !.timer = (form.setCurrentBundleId[1] # "")]))

\* the timer of 100 ms fires: setCurrentBundleId('')
ResetBundleId ==
    /\ form.timer
    /\ FormStep("ResetBundleId",
                [form EXCEPT !.timer = FALSE, !.setCurrentBundleId = <<"">>])

\* the set of _BUNDLE_ID values of submitted lines
PostedIdsOf(ls) == {FindAttr(ls[i].attributes, "_BUNDLE_ID") : i \in 1..Len(ls)}

\* the cart form submits the lines it was last rendered with
SubmitBundleForm ==
    /\ form.submitting
    /\ FormStep("SubmitBundleForm",
                [form EXCEPT !.submitting = FALSE,
                             !.fetcher = [state |-> "submitting", lines |-> form.lines],
                             !.postedIds = IF form.lines # <<>>
                                           THEN Append(@, PostedIdsOf(form.lines))
                                           ELSE @])

\* the cart route answers; the fetcher is idle again
FetcherIdle ==
    /\ form.fetcher.state = "submitting"
    /\ FormStep("FetcherIdle", [form EXCEPT !.fetcher = IdleFetcher])

InitForm ==
    /\ hasCart = FALSE
    /\ lines = {}
    /\ shipAttr = Undefined
    /\ variant = NoStr
    /\ urlVariant = NoStr
    /\ catalog = CatalogAllFine
    /\ op = "none"
    /\ calls = NoCalls
    /\ failed = {}
    /\ calcCart = Snapshot(FALSE, FALSE, <<>>, <<>>)
    /\ calcOut = [done |-> FALSE]
    /\ discountCodes = <<>>
    /\ form \in {MountedForm(selected) : selected \in SelectableVariants}
    /\ resolveCall = NoResolve
    /\ flags = NoFlags
    /\ returned = NoResponse

NextForm ==
    \/ SelectVariant
    \/ ToggleBundleBuilder
    \/ updateBundleSelection
    \/ ClickBundleButton
    \/ RenderBundleId
    \/ ResetBundleId
    \/ SubmitBundleForm
    \/ FetcherIdle

SpecForm == InitForm /\ [][NextForm]_vars

(***************************************************************************)
(* The cart route with the perks pass, fed by the add-to-cart forms and by *)
(* the 3-Pack button of the product form.                                  *)
(***************************************************************************)
\* the lines the 3-Pack button submits: three times one variant or a mix, tagged with
\* the id of the render they come from
PackInputs ==
    {bundleCartLines(variants, b) :
         variants \in {<<"tee/std", "tee/std", "tee/blue">>}, b \in BundleIds}

\* action(), CartForm.ACTIONS.LinesAdd with the lines of a 3-pack
ActionPackAdd ==
    \E ins \in PackInputs :
        \E added \in {StoreAddLines(lines, ins, 1)} :
            /\ TotalQuantity(added) <= MaxItems
            /\ Cardinality(added) <= MaxCartLines
            /\ RunPass(TRUE, added, "LinesAdd")

NextPacks ==
    \/ ActionLinesAdd({LineInput("cap/std", <<>>)})
    \/ ActionPackAdd
    \/ ActionLinesRemove

\* a session that the URL has put in Variant B, the variant with free items
InitPacks ==
    /\ hasCart = FALSE
    /\ lines = {}
    /\ shipAttr = Undefined
    /\ \E src \in {v \in VariantSources : v.url = "B"} :
           variant = src.session /\ urlVariant = src.url
    /\ catalog = CatalogAllFine
    /\ op = "none"
    /\ calls = NoCalls
    /\ failed = {}
    /\ calcCart = Snapshot(FALSE, FALSE, <<>>, <<>>)
    /\ calcOut = [done |-> FALSE]
    /\ discountCodes = <<>>
    /\ form = NoForm
    /\ resolveCall = NoResolve
    /\ flags = NoFlags
    /\ returned = NoResponse

SpecPacks == InitPacks /\ [][NextPacks]_vars

(***************************************************************************)
(* Feature values of a session (growthbook.ts).  A feature name is the     *)
(* sequence of its characters; a value carries its JavaScript type and its *)
(* text.  The server keeps growthbook_features in the session, the browser *)
(* in sessionStorage; on the server window is undefined.                   *)
(***************************************************************************)
LowerLetters == <<"a", "b", "c", "d", "e", "f", "g", "h", "i", "j", "k", "l", "m",
                  "n", "o", "p", "q", "r", "s", "t", "u", "v", "w", "x", "y", "z">>

UpperLetters == <<"A", "B", "C", "D", "E", "F", "G", "H", "I", "J", "K", "L", "M",
                  "N", "O", "P", "Q", "R", "S", "T", "U", "V", "W", "X", "Y", "Z">>

LetterIndex(letters, c) == CHOOSE i \in 1..Len(letters) : letters[i] = c

IsUpper(c) == \E i \in 1..Len(UpperLetters) : UpperLetters[i] = c

\* b.charCodeAt(0) of a letter or an underscore
CharCodeAt(c) ==
    IF c = "_" THEN 95
    ELSE IF IsUpper(c) THEN 64 + LetterIndex(UpperLetters, c)
    ELSE 96 + LetterIndex(LowerLetters, c)

\* feature.toLowerCase()
FeatureToLowerCase(feature) ==
    [i \in 1..Len(feature) |->
        IF IsUpper(feature[i]) THEN LowerLetters[LetterIndex(UpperLetters, feature[i])]
        ELSE feature[i]]

\* String.prototype.includes
Includes(str, sub) ==
    \E i \in 0..(Len(str) - Len(sub)) : SubSeq(str, i + 1, i + Len(sub)) = sub

\* a = ((a << 5) - a + b.charCodeAt(0)) & 0xffffffff over the characters: a 32-bit
\* integer, kept as its two 16-bit halves
RECURSIVE HashReduce(_, _, _, _)
HashReduce(feature, i, hi, lo) ==
    IF i > Len(feature) THEN [hi |-> hi, lo |-> lo]
    ELSE LET low == lo * 31 + CharCodeAt(feature[i])
         IN  HashReduce(feature, i + 1, (hi * 31 + low \div 65536) % 65536, low % 65536)

\* Math.abs(hash) % m of the signed 32-bit hash, for m dividing 1000
AbsHashMod(feature, m) ==
    LET h == HashReduce(feature, 1, 0, 0)
    IN  IF h.hi < 32768
        THEN ((h.hi % m) * (65536 % m) + h.lo) % m
        ELSE (((65535 - h.hi) % m) * (65536 % m) + (65536 - h.lo)) % m

FeatureValue(type, text) == [type |-> type, text |-> text]

NoValue == FeatureValue("undefined", <<>>)

BooleanValue(b) == FeatureValue("boolean", IF b THEN StrTrue ELSE StrFalse)

NumberValue(n) == FeatureValue("number", NatToString(n))

StringValue(text) == FeatureValue("string", text)

\* what Math.floor(Math.random() * 100) may give
RandomPercentages == {0, 50, 99}

\* the values the generation step of getFeatureValue may give for a feature
GenerateValue(feature) ==
    LET lower == FeatureToLowerCase(feature)
    IN  IF Includes(lower, <<"o", "n">>) \/ Includes(lower, <<"e", "n", "a", "b", "l", "e", "d">>)
        THEN {BooleanValue(TRUE), BooleanValue(FALSE)}
        ELSE IF Includes(lower, <<"p", "e", "r", "c", "e", "n", "t", "a", "g", "e">>) \/ Includes(lower, <<"r", "a", "t", "e">>)
        THEN {NumberValue(n) : n \in RandomPercentages}
        ELSE IF Includes(lower, <<"s", "t", "r", "i", "n", "g">>) \/ Includes(lower, <<"t", "e", "x", "t">>)
        THEN {StringValue(<<"v", "a", "l", "u", "e", "_">> \o NatToString(AbsHashMod(feature, 1000)))}
        ELSE {NumberValue(AbsHashMod(feature, 100))}

\* getClientSessionFeatureValue: undefined without a window
getClientSessionFeatureValue(f, window) == IF ~window THEN NoValue ELSE f.client

\* setClientSessionFeatureValue: nothing without a window
setClientSessionFeatureValue(f, window, value) ==
    IF ~window THEN f ELSE [f EXCEPT !.client = value]

\* setSessionFeatureValueServer
setSessionFeatureValueServer(f, value) == [f EXCEPT !.server = value]

\* getFeatureValue(feature, defaultValue, context): the values it may return, each with
\* the stores it leaves
getFeatureValue(f, defaultValue, hasContext, window) ==
    IF defaultValue # NoValue THEN {[result |-> defaultValue, stores |-> f]}
    ELSE IF getClientSessionFeatureValue(f, window) # NoValue
    THEN {[result |-> getClientSessionFeatureValue(f, window), stores |-> f]}
    ELSE IF hasContext /\ f.server # NoValue
    THEN {[result |-> f.server, stores |-> setClientSessionFeatureValue(f, window, f.server)]}
    ELSE {[result |-> randomValue,
           stores |-> LET stored == setClientSessionFeatureValue(f, window, randomValue)
                      IN  IF hasContext THEN setSessionFeatureValueServer(stored, randomValue)
                          ELSE stored] : randomValue \in GenerateValue(f.feature)}

\* setFeatureValue(feature, value, context)
setFeatureValue(f, value, hasContext, window) ==
    LET stored == setClientSessionFeatureValue(f, window, value)
    IN  IF hasContext THEN setSessionFeatureValueServer(stored, value) ELSE stored

Features ==
    {<<"n", "e", "w", "_", "f", "e", "a", "t", "u", "r", "e", "_", "e", "n", "a", "b", "l", "e", "d">>,
     <<"c", "a", "r", "t", "_", "p", "e", "r", "k", "s", "_", "v", "a", "r", "i", "a", "n", "t">>,
     <<"d", "i", "s", "c", "o", "u", "n", "t", "_", "r", "a", "t", "e">>,
     <<"b", "a", "n", "n", "e", "r", "_", "t", "e", "x", "t">>,
     <<"c", "h", "e", "c", "k", "o", "u", "t", "B", "u", "t", "t", "o", "n", "T", "e", "x", "t">>}

\* values passed to a hook or to setFeatureValue
ExplicitValues == {BooleanValue(TRUE), StringValue(<<"B">>)}

\* a session in which nothing is stored for the feature
NewSession(feature) ==
    [used |-> TRUE, feature |-> feature, server |-> NoValue, client |-> NoValue,
     known |-> NoValue, expected |-> NoValue, explicit |-> NoValue, result |-> NoValue,
     window |-> FALSE]

FlagStep(name, f) ==
    /\ flags' = f
    /\ op' = name
    /\ UNCHANGED <<hasCart, lines, shipAttr, variant, urlVariant, catalog, calls, failed,
                   calcCart, calcOut, discountCodes, form, resolveCall, returned>>

\* useFeatureIsOn / useFeatureIsValue while the server renders: the state initialiser
\* runs getFeatureValue, effects do not run.  known is the value the session has
\* settled on: the one generated or set last
useFeatureOnServer ==
    \E value \in {NoValue} \cup ExplicitValues, hasContext \in BOOLEAN :
    \E out \in getFeatureValue(flags, value, hasContext, FALSE) :
        FlagStep("useFeatureOnServer",
                 [out.stores EXCEPT !.expected = flags.known,
                                    !.explicit = value,
                                    !.result = out.result,
                                    !.window = FALSE,
                                    !.known = IF value = NoValue THEN out.result ELSE @])

\* the same hooks in the browser, where no context exists: the initialiser, then the
\* effect that stores the result in sessionStorage
useFeatureOnClient ==
    \E value \in {NoValue} \cup ExplicitValues :
    \E out \in getFeatureValue(flags, value, FALSE, TRUE) :
        FlagStep("useFeatureOnClient",
                 [setClientSessionFeatureValue(out.stores, TRUE, out.result) EXCEPT
                      !.expected = flags.known,
                      !.explicit = value,
                      !.result = out.result,
                      !.window = TRUE,
                      !.known = out.result])

\* setFeatureValue called on the server (with or without context) or in the browser
SetFeatureValue ==
    \E value \in ExplicitValues, window \in BOOLEAN :
    \E hasContext \in IF window THEN {FALSE} ELSE BOOLEAN :
        /\ (window \/ hasContext)
        /\ FlagStep("setFeatureValue",
                    [setFeatureValue(flags, value, hasContext, window) EXCEPT
                         !.expected = NoValue,
                         !.explicit = value,
                         !.result = NoValue,
                         !.window = window,
                         !.known = value])

InitFlags ==
    /\ hasCart = FALSE
    /\ lines = {}
    /\ shipAttr = Undefined
    /\ variant = NoStr
    /\ urlVariant = NoStr
    /\ catalog = CatalogAllFine
    /\ op = "none"
    /\ calls = NoCalls
    /\ failed = {}
    /\ calcCart = Snapshot(FALSE, FALSE, <<>>, <<>>)
    /\ calcOut = [done |-> FALSE]
    /\ discountCodes = <<>>
    /\ form = NoForm
    /\ resolveCall = NoResolve
    /\ flags \in {NewSession(feature) : feature \in Features}
    /\ returned = NoResponse

NextFlags ==
    \/ useFeatureOnServer
    \/ useFeatureOnClient
    \/ SetFeatureValue

SpecFlags == InitFlags /\ [][NextFlags]_vars

(***************************************************************************)
(* Properties of the calculators.                                          *)
(***************************************************************************)
IsFreeLine(line) == SomeAttr(line, "_FREE_ITEM", StrTrue)

LineCost(line) == ParseFloat(OrZero(AmountOf(line)))

RECURSIVE SumCosts(_, _)
\* the JavaScript sum of the costs of the lines of `nodes` at the positions `idx`
SumCosts(nodes, idx) ==
    IF idx = {} THEN Units(0)
    ELSE LET i == CHOOSE j \in idx : TRUE
         IN  JsAdd(LineCost(nodes[i]), SumCosts(nodes, idx \ {i}))

PaidPositions(cart) == {i \in 1..Len(cart.nodes) : ~IsFreeLine(cart.nodes[i])}

\* C5: the reconciliation subtotal is the sum of the line costs of exactly the lines
\* not tagged _FREE_ITEM="true"; a cart of free lines only, an empty cart and a
\* missing cart give 0.
C5_SubtotalExcludesFreeLines ==
    calcOut.done =>
        /\ calcOut.server.subtotal = SumCosts(calcCart.nodes, PaidPositions(calcCart))
        /\ calcOut.client.subtotal = SumCosts(calcCart.nodes, PaidPositions(calcCart))
        /\ (PaidPositions(calcCart) = {} => calcOut.server.subtotal = Units(0))

C5_Witness ==
    /\ calcOut.done
    /\ \E i, j \in 1..Len(calcCart.nodes) :
           /\ IsFreeLine(calcCart.nodes[i]) /\ JsGt(LineCost(calcCart.nodes[i]), Units(0))
           /\ ~IsFreeLine(calcCart.nodes[j]) /\ JsGt(LineCost(calcCart.nodes[j]), Units(0))

WellFormedCost(line) ==
    line.cost.chain = "amount" /\ line.cost.amount # <<>> /\ ~ParseFloat(line.cost.amount).nan

\* C6: a line whose cost field is missing or malformed (absent cost, absent
\* totalAmount, absent or non-numeric amount) contributes zero, and the costs of the
\* other lines are still summed.
C6_MalformedCostCountsZero ==
    calcOut.done =>
        LET wellFormed == {i \in PaidPositions(calcCart) : WellFormedCost(calcCart.nodes[i])}
        IN  /\ ~calcOut.server.subtotal.nan
            /\ calcOut.server.subtotal = SumCosts(calcCart.nodes, wellFormed)

\* what the evaluator's contract says of each milestone of an evaluated state
C7_ProgressOf(state) ==
    \A i \in 1..Len(state.milestones) :
        LET p == state.milestones[i]
            s == state.subtotal
        IN  /\ p.achieved = (~s.nan /\ s.v >= p.threshold.v)
            /\ ~s.nan => /\ p.remaining = Num(IF p.threshold.v - s.v > 0 THEN p.threshold.v - s.v ELSE 0)
                         /\ p.remaining.v >= 0
            /\ p.eligible = p.achieved

\* C7: achieved = (s >= t), boundary inclusive; remaining = max(0, t - s), never
\* negative; eligible = achieved.
C7_AchievedRemainingEligible ==
    calcOut.done => C7_ProgressOf(calcOut.server) /\ C7_ProgressOf(calcOut.client)

C7_Witness ==
    /\ calcOut.done
    /\ \E i \in 1..Len(calcOut.server.milestones) :
           /\ calcOut.server.subtotal = calcOut.server.milestones[i].threshold
           /\ calcOut.server.milestones[i].achieved
           /\ calcOut.server.milestones[i].remaining = Units(0)

\* what the evaluator's contract says of nextMilestone, allAchieved and hasProgress
C8_NextOf(state) ==
    LET ms == state.milestones
        unmet == {i \in 1..Len(ms) : ~ms[i].achieved}
    IN  /\ \/ unmet = {} /\ state.nextMilestone = <<>>
           \/ \E i \in unmet : /\ \A j \in 1..(i - 1) : ms[j].achieved
                               /\ state.nextMilestone = <<ms[i]>>
        /\ (state.nextMilestone = <<>>) = state.allAchieved
        /\ state.allAchieved = (unmet = {})
        /\ state.hasProgress = (~state.subtotal.nan /\ state.subtotal.v > 0 /\ unmet # {})

\* C8: nextMilestone is the first milestone in variant order with achieved = false;
\* it is undefined exactly when allAchieved; hasProgress is true exactly when
\* subtotal > 0 and some milestone is unachieved.
C8_NextMilestone ==
    calcOut.done => C8_NextOf(calcOut.server) /\ C8_NextOf(calcOut.client)

C8_Witness ==
    /\ calcOut.done
    /\ variant = "B"
    /\ calcOut.server.milestones[1].achieved
    /\ ~calcOut.server.milestones[2].achieved
    /\ calcOut.server.nextMilestone = <<calcOut.server.milestones[2]>>
    /\ calcOut.server.hasProgress

(***************************************************************************)
(* Properties of the reconciliation pass.                                  *)
(***************************************************************************)
Handlers == {"LinesAdd", "LinesUpdate", "LinesRemove", "PageLoad"}

UserOps == {"LinesAdd", "LinesUpdate", "LinesRemove"}

\* the sum of the costs of the lines of the cart that are not free lines
PaidSubtotal(ls) ==
    LET nodes == Nodes(ls)
    IN  SumCosts(nodes, {i \in 1..Len(nodes) : ~IsFreeLine(nodes[i])})

\* the milestones of the variant a pass would use now
ActiveMilestones ==
    VARIANTS(PassVariant([session |-> variant], [cart_variant |-> urlVariant]))

FreeLinesOf(ls, handle) == {l \in ls : l.handle = handle /\ IsFreeLine(l)}

FreeHandles == {"black-sunnies", "frontpack"}

\* the line inputs of the addLines call, the line ids of the removeLines call
AddedLines(c) == IF c.addLines = <<>> THEN <<>> ELSE c.addLines[1]

RemovedIds(c) == IF c.removeLines = <<>> THEN <<>> ELSE c.removeLines[1]

\* C1: after a user operation followed by a pass whose catalog lookups and cart
\* mutations all succeed, for every freeItem milestone of the active variant a free
\* line of its handle is present if and only if the subtotal is at least its threshold.
C1_PerksMatchSubtotal ==
    (op \in UserOps /\ failed = {} /\ catalog = CatalogAllFine) =>
        \A i \in 1..Len(ActiveMilestones) :
            ActiveMilestones[i].type = "freeItem" =>
                ((FreeLinesOf(lines, ActiveMilestones[i].handle) # {})
                    <=> JsGe(PaidSubtotal(lines), ActiveMilestones[i].threshold))

\* the pass that would run now, with every call succeeding
SecondPass ==
    Let(CartGet(hasCart, lines, shipAttr), LAMBDA cart :
        processCartPerks(cart,
                         [lines |-> lines, shipAttr |-> shipAttr, storefront |-> catalog,
                          session |-> variant, throwing |-> {}],
                         "PageLoad", [cart_variant |-> urlVariant]))

\* C2: once a pass has applied all its mutations, a second pass run on the resulting
\* cart calls neither updateAttributes nor addLines nor removeLines.
C2_SecondPassMakesNoCall ==
    (op \in Handlers /\ failed = {}) => SecondPass.calls = NoCalls

\* C3: there is at most one line tagged _FREE_ITEM="true" per free-item handle, and a
\* pass never calls addLines for a handle that has a free line in the cart it reads.
C3_OneFreeLinePerHandle ==
    [][/\ \A h \in FreeHandles : Cardinality(FreeLinesOf(lines', h)) <= 1
       /\ op' \in {"PageLoad", "LinesAdd", "LinesUpdate"} =>
              \A k \in 1..Len(AddedLines(calls')) :
                  FreeLinesOf(lines, ProductHandle(AddedLines(calls')[k].merchandiseId)) = {}]_vars

C3_Witness ==
    /\ op = "PageLoad" /\ failed = {} /\ catalog = CatalogAllFine
    /\ calls.addLines = <<>>
    /\ Cardinality(FreeLinesOf(lines, "black-sunnies")) = 1
    /\ \E i \in 1..Len(ActiveMilestones) :
           /\ ActiveMilestones[i].handle = "black-sunnies"
           /\ JsGe(PaidSubtotal(lines), ActiveMilestones[i].threshold)

\* the evaluated state of a cart under the variant a pass would use now
StateOf(exists, ls, ship) ==
    Let(CartGet(exists, ls, ship), LAMBDA cart :
        calculateCartPerksState(cart, PassVariant([session |-> variant],
                                                  [cart_variant |-> urlVariant])))

\* C4: a pass without a user operation leaves the reconciliation subtotal and every
\* milestone's achievement as they were, and never removes a free line that the pass
\* before it added.
C4_NoFeedbackLoop ==
    [][op' = "PageLoad" =>
          /\ StateOf(hasCart', lines', shipAttr').subtotal
                 = StateOf(hasCart, lines, shipAttr).subtotal
          /\ StateOf(hasCart', lines', shipAttr').milestones
                 = StateOf(hasCart, lines, shipAttr).milestones
          /\ op \in Handlers =>
                 \A k \in 1..Len(AddedLines(calls)) : \A j \in 1..Len(RemovedIds(calls')) :
                     RemovedIds(calls')[j] # LineId(AddedLines(calls)[k])]_vars

C4_Witness ==
    /\ op = "PageLoad" /\ failed = {}
    /\ calls.addLines # <<>>
    /\ \E l \in lines : IsFreeLine(l)
    /\ JsGt(PaidSubtotal(lines), Units(0))

\* the achievement of the shipping milestone for a cart, false if none is configured
ShippingDesired(ls) ==
    \E i \in 1..Len(ActiveMilestones) :
        /\ ActiveMilestones[i].type = "shipping"
        /\ JsGe(PaidSubtotal(ls), ActiveMilestones[i].threshold)

\* C9: a pass calls updateAttributes exactly when the achievement of the shipping
\* milestone differs from the stored __FREE_SHIPPING, absent counting as false; after a
\* pass whose update succeeds, __FREE_SHIPPING is "true" iff subtotal >= the threshold.
C9_ShippingAttribute ==
    [][op' \in Handlers =>
          /\ (calls'.updateAttributes # <<>>) <=> (ShippingDesired(lines') # (shipAttr = StrTrue))
          /\ (calls'.updateAttributes # <<>> /\ "updateAttributes" \notin failed') =>
                 ((shipAttr' = StrTrue) <=> ShippingDesired(lines'))]_vars

C9_Witness ==
    /\ op \in Handlers /\ failed = {}
    /\ calls.updateAttributes = <<<<Attr("__FREE_SHIPPING", StrFalse)>>>>
    /\ shipAttr = StrFalse
    /\ ~ShippingDesired(lines)
    /\ lines # {}

\* C10: in every pass, removeLines is called with the id of every line tagged
\* _FREE_ITEM="true" whose stored _FREE_ITEM_THRESHOLD is greater than the subtotal.
C10_StaleFreeLinesRemoved ==
    [][op' = "PageLoad" =>
          \A l \in lines :
              (/\ IsFreeLine(l)
               /\ HasKey(l, "_FREE_ITEM_THRESHOLD")
               /\ JsLt(PaidSubtotal(lines),
                       ParseFloat(FindAttr(l.attributes, "_FREE_ITEM_THRESHOLD"))))
              => \E j \in 1..Len(RemovedIds(calls')) : RemovedIds(calls')[j] = l.id]_vars

(***************************************************************************)
(* Properties of the pass on any cart.                                     *)
(***************************************************************************)
SunniesFreeLine == StoredLine("black-sunnies/black", FreeTags("black-sunnies", <<"1", "0", "0">>))

\* the product handles of the line inputs of the addLines call
AddedHandles(c) ==
    {ProductHandle(AddedLines(c)[k].merchandiseId) : k \in 1..Len(AddedLines(c))}

RemovedIdSet(c) == {RemovedIds(c)[j] : j \in 1..Len(RemovedIds(c))}

\* the handles of the freeItem milestones achieved by the paid subtotal of a cart
AchievedFreeHandles(ls) ==
    {ActiveMilestones[i].handle : i \in {j \in 1..Len(ActiveMilestones) :
        /\ ActiveMilestones[j].type = "freeItem"
        /\ JsGe(PaidSubtotal(ls), ActiveMilestones[j].threshold)}}

\* C11: Variant B, a cart at subtotal 90 that holds the Black-Sunnies free line with
\* stored threshold 100 and __FREE_SHIPPING="true" (as left at subtotal 120): the pass
\* removes the free line and sets __FREE_SHIPPING to "false".
C11_DropFrom120To90 ==
    [][(/\ op' = "PageLoad" /\ failed' = {}
        /\ variant = "B"
        /\ PaidSubtotal(lines) = Units(90)
        /\ SunniesFreeLine \in lines
        /\ shipAttr = StrTrue)
       => /\ SunniesFreeLine.id \in RemovedIdSet(calls')
          /\ SunniesFreeLine \notin lines'
          /\ shipAttr' = StrFalse]_vars

\* C12 as stated: a pass emits an add for exactly the achieved freeItem milestones
\* that have no free line yet.
C12_AddsExactlyAchievedMissing ==
    [][op' = "PageLoad" =>
          AddedHandles(calls')
              = {h \in AchievedFreeHandles(lines) : FreeLinesOf(lines, h) = {}}]_vars

\* the catalog resolves the milestone of this handle to a variant available for sale
ResolvesAvailable(handle) ==
    \E i \in 1..Len(ActiveMilestones) :
        /\ ActiveMilestones[i].handle = handle
        /\ LET resolved == resolveProductVariant(handle, ActiveMilestones[i].variant, catalog)
           IN  resolved # <<>> /\ resolved[1].availableForSale

\* C12: a pass emits one add for exactly the achieved freeItem milestones that have no
\* free line yet and whose product the catalog resolves to a variant available for
\* sale, and for no unachieved milestone; under Variant B at subtotal 120 from a cart
\* without perks it sets __FREE_SHIPPING="true" and adds black-sunnies, not frontpack.
C12_AddsAchievedMissingAvailable ==
    [][op' = "PageLoad" =>
          /\ AddedHandles(calls')
                 = {h \in AchievedFreeHandles(lines) :
                        FreeLinesOf(lines, h) = {} /\ ResolvesAvailable(h)}
          /\ Len(AddedLines(calls')) = Cardinality(AddedHandles(calls'))
          /\ (/\ variant = "B" /\ catalog = CatalogAllFine /\ failed' = {}
              /\ PaidSubtotal(lines) = Units(120)
              /\ shipAttr # StrTrue
              /\ \A l \in lines : ~IsFreeLine(l))
             => /\ shipAttr' = StrTrue
                /\ SunniesFreeLine \in lines'
                /\ FreeLinesOf(lines', "frontpack") = {}]_vars

C12_Witness ==
    /\ op = "PageLoad" /\ failed = {} /\ variant = "B"
    /\ PaidSubtotal(lines) = Units(120)
    /\ calls.updateAttributes # <<>> /\ shipAttr = StrTrue
    /\ AddedHandles(calls) = {"black-sunnies"}
    /\ SunniesFreeLine \in lines

\* the decimal text of a milestone's threshold
ThresholdText(m) ==
    CASE m.threshold = Units(50) -> <<"5", "0">>
      [] m.threshold = Units(100) -> <<"1", "0", "0">>
      [] m.threshold = Units(150) -> <<"1", "5", "0">>

\* C13: every line of an addLines call of the pass has quantity 1 and exactly the tags
\* _FREE_ITEM="true", _FREE_ITEM_TYPE = the milestone's handle and
\* _FREE_ITEM_THRESHOLD = the milestone's threshold as a string.
C13_AddedLinesCarryTags ==
    [][op' = "PageLoad" =>
          \A k \in 1..Len(AddedLines(calls')) :
              \E i \in 1..Len(ActiveMilestones) :
                  /\ ActiveMilestones[i].type = "freeItem"
                  /\ ProductHandle(AddedLines(calls')[k].merchandiseId)
                         = ActiveMilestones[i].handle
                  /\ AddedLines(calls')[k].quantity = 1
                  /\ AddedLines(calls')[k].attributes
                         = FreeTags(ActiveMilestones[i].handle,
                                    ThresholdText(ActiveMilestones[i]))]_vars

C13_Witness ==
    /\ op = "PageLoad" /\ failed = {}
    /\ AddedHandles(calls) = {"black-sunnies", "frontpack"}
    /\ \E l \in lines : l.handle = "frontpack" /\ l.quantity = 1
                        /\ l.attributes = FreeTags("frontpack", <<"1", "5", "0">>)

IsUnstamped(l) == IsFreeLine(l) /\ ~HasKey(l, "_FREE_ITEM_THRESHOLD")

\* C14: a line tagged _FREE_ITEM="true" without a _FREE_ITEM_THRESHOLD tag is in no
\* removeLines call of a pass and stays in the cart, whatever the subtotal.
C14_UnstampedNeverRemoved ==
    [][op' = "PageLoad" =>
          \A l \in lines :
              IsUnstamped(l) => l.id \notin RemovedIdSet(calls') /\ l \in lines']_vars

C14_Witness ==
    /\ op = "PageLoad" /\ failed = {}
    /\ calls.removeLines # <<>>
    /\ \E l \in lines : IsUnstamped(l)

\* C15: a line not tagged _FREE_ITEM="true" is in no removeLines call of a pass and
\* stays in the cart, and a paid line of a free item's product does not stop the add
\* of that free item.
C15_OnlyFreeLinesRemoved ==
    [][op' = "PageLoad" =>
          /\ \A l \in lines :
                 ~IsFreeLine(l) => l.id \notin RemovedIdSet(calls') /\ l \in lines'
          /\ \A h \in AchievedFreeHandles(lines) :
                 (/\ \E l \in lines : l.handle = h /\ ~IsFreeLine(l)
                  /\ FreeLinesOf(lines, h) = {}
                  /\ ResolvesAvailable(h))
                 => h \in AddedHandles(calls')]_vars

C15_Witness ==
    /\ op = "PageLoad" /\ failed = {}
    /\ calls.removeLines # <<>>
    /\ "black-sunnies" \in AddedHandles(calls)
    /\ \E l \in lines : /\ l.handle = "black-sunnies" /\ ~IsFreeLine(l)
                        /\ HasKey(l, "_FREE_ITEM_THRESHOLD")

\* C16: the pass triggered by the user's LinesRemove of a free line whose milestone is
\* still achieved makes no addLines call for that free item.
C16_ManualRemovalNotReadded ==
    [][op' = "LinesRemove" =>
          \A h \in AddedHandles(calls') : FreeLinesOf(lines, h) = {}]_vars


(***************************************************************************)
(* Properties of the bundle route and of the drawer's grouping.            *)
(***************************************************************************)
LineHandlers == {"LinesAdd", "LinesUpdate", "LinesRemove"}

\* the _BUNDLE_ID values that lines of the cart carry
BundleIdsIn(ls) == {b \in {AttrValue(l, "_BUNDLE_ID") : l \in ls} : Truthy(b)}

\* a group: the lines sharing one _BUNDLE_ID
GroupOf(ls, b) == {l \in ls : AttrValue(l, "_BUNDLE_ID") = b}

CompleteGroups(ls) == {b \in BundleIdsIn(ls) : TotalQuantity(GroupOf(ls, b)) = 3}

\* C17: after each add, update or remove handled by the cart action, BUNDLE20 is
\* applied if and only if the cart holds at least one complete bundle group.
C17_DiscountIffCompleteBundle ==
    op \in LineHandlers =>
        (HasCode(discountCodes, "BUNDLE20") <=> CompleteGroups(lines) # {})

\* C18: a group is complete if and only if the quantities of its lines sum to exactly
\* 3, for the route's validateRemainingBundles and for the drawer's BundleGroup alike.
C18_CompleteIffQuantitySumIsThree ==
    \E remaining \in {validateRemainingBundles(Nodes(lines))} :
    \E groups \in {groupCartLines(Nodes(lines)).bundles} :
        /\ remaining.hasValidBundles <=> CompleteGroups(lines) # {}
        /\ remaining.totalValidBundles = Cardinality(CompleteGroups(lines))
        /\ \A b \in DOMAIN remaining.allBundleCounts :
               remaining.allBundleCounts[b] = TotalQuantity(GroupOf(lines, b))
        /\ \A b \in DOMAIN groups :
               isCompleteBundle(groups[b]) <=> TotalQuantity(GroupOf(lines, b)) = 3

\* a complete group of two lines (2 + 1) beside a group of two lines whose
\* quantities sum to 2
C18_Witness ==
    \E b, c \in BundleIdsIn(lines) :
        /\ Cardinality(GroupOf(lines, b)) = 2
        /\ TotalQuantity(GroupOf(lines, b)) = 3
        /\ Cardinality(GroupOf(lines, c)) = 2
        /\ TotalQuantity(GroupOf(lines, c)) = 2
        /\ validateRemainingBundles(Nodes(lines)).totalValidBundles = 1

\* C19: a line handler that adds or removes BUNDLE20 leaves every other applied code
\* applied and adds no other code.
C19_OtherCodesPreserved ==
    [][(op' \in LineHandlers
        /\ HasCode(discountCodes', "BUNDLE20") # HasCode(discountCodes, "BUNDLE20"))
       => WithoutCode(discountCodes', "BUNDLE20") = WithoutCode(discountCodes, "BUNDLE20")]_vars

\* how often a line occurs in a list of lines
Occurrences(seq, l) == Cardinality({i \in 1..Len(seq) : seq[i] = l})

\* C20: groupCartLines puts every line of the cart in exactly one place, a bundle group
\* or the ungrouped list; two grouped lines share a group if and only if their
\* _BUNDLE_ID values are equal; a group is returned whatever its quantity sum.
C20_GroupingPartitionsByBundleId ==
    \E grouped \in {groupCartLines(Nodes(lines))} :
        /\ \A l \in lines :
               Occurrences(grouped.individualLines, l)
               + Cardinality({b \in DOMAIN grouped.bundles :
                                  Occurrences(grouped.bundles[b].lines, l) > 0}) = 1
        /\ \A b \in DOMAIN grouped.bundles :
               /\ Len(grouped.bundles[b].lines) > 0
               /\ \A i \in 1..Len(grouped.bundles[b].lines) :
                      /\ grouped.bundles[b].lines[i] \in lines
                      /\ Occurrences(grouped.bundles[b].lines, grouped.bundles[b].lines[i]) = 1
        /\ \A i \in 1..Len(grouped.individualLines) : grouped.individualLines[i] \in lines
        /\ \A b, c \in DOMAIN grouped.bundles :
               \A i \in 1..Len(grouped.bundles[b].lines) :
               \A j \in 1..Len(grouped.bundles[c].lines) :
                   (b = c) <=> (AttrValue(grouped.bundles[b].lines[i], "_BUNDLE_ID")
                                = AttrValue(grouped.bundles[c].lines[j], "_BUNDLE_ID"))
        /\ \A l \in lines :
               (Truthy(AttrValue(l, "_BUNDLE_NAME")) /\ Truthy(AttrValue(l, "_BUNDLE_ID")))
               => \E b \in DOMAIN grouped.bundles : Occurrences(grouped.bundles[b].lines, l) = 1

\* two groups of the same bundle name, one of them below 3, beside an untagged line
\* and a line that carries the name only
C20_Witness ==
    \E grouped \in {groupCartLines(Nodes(lines))} :
        /\ Len(grouped.individualLines) = 2
        /\ \E b, c \in DOMAIN grouped.bundles :
               /\ b # c
               /\ grouped.bundles[b].bundleName = grouped.bundles[c].bundleName
               /\ totalItemsInBundle(grouped.bundles[b]) < 3
               /\ totalItemsInBundle(grouped.bundles[c]) = 3

RECURSIVE SumUndiscounted(_)
\* the sum over a set of lines of unit price times quantity, in hundredths
SumUndiscounted(ls) ==
    IF ls = {} THEN 0
    ELSE LET l == CHOOSE x \in ls : TRUE
         IN  UnitPrice(l.merchandiseId) * l.quantity + SumUndiscounted(ls \ {l})

RECURSIVE SumCurrentCosts(_)
\* the sum over a set of lines of the line's cost, in hundredths
SumCurrentCosts(ls) ==
    IF ls = {} THEN 0
    ELSE LET l == CHOOSE x \in ls : TRUE
         IN  ParseFloat(l.cost.amount).v + SumCurrentCosts(ls \ {l})

\* C21: for every bundle group, the pre-discount price is the sum of unit price times
\* quantity over its lines, the current price is the sum of the lines' costs, and the
\* savings are the first minus the second.
C21_BundlePrices ==
    \E groups \in {groupCartLines(Nodes(lines)).bundles} :
        \A b \in DOMAIN groups :
            \E summary \in {BundleSummary(groups[b])} :
                /\ summary.originalPrice = Num(SumUndiscounted(GroupOf(lines, b)))
                /\ summary.totalPrice = Num(SumCurrentCosts(GroupOf(lines, b)))
                /\ summary.savings = JsSub(summary.originalPrice, summary.totalPrice)

(***************************************************************************)
(* Properties of the resolver.                                             *)
(***************************************************************************)
\* the product the storefront answers for the call, as a sequence of at most one
ResolvedProduct(call) ==
    IF DOMAIN call.storefront = {} \/ call.storefront[call.handle].throws
    THEN <<>>
    ELSE call.storefront[call.handle].product

\* the variants of a product whose color is the selector, letter case apart
ColorMatches(product, variantSpec) ==
    {i \in 1..Len(product.variants) :
        LET v == product.variants[i]
        IN  \E o \in 1..Len(v.selectedOptions) :
                /\ v.selectedOptions[o].name \in {"Color", "color", "COLOR"}
                /\ ToLowerCase(v.selectedOptions[o].value) = ToLowerCase(variantSpec)}

\* C22: with a selector the resolver returns the variant whose color is the selector,
\* letter case apart; when none matches it returns the product's default variant; it
\* returns null only when the product cannot be resolved or has no variant to offer.
C22_ResolverFallsBackToDefault ==
    resolveCall.done =>
        \E product \in {ResolvedProduct(resolveCall)} :
            /\ product = <<>> => resolveCall.result = <<>>
            /\ product # <<>> =>
                   \E matches \in {ColorMatches(product[1], resolveCall.variantSpec)} :
                       IF resolveCall.variantSpec # NoStr /\ matches # {}
                       THEN /\ Len(resolveCall.result) = 1
                            /\ resolveCall.result[1] \in {product[1].variants[i] : i \in matches}
                       ELSE resolveCall.result = product[1].selectedOrFirstAvailableVariant
            /\ resolveCall.result = <<>> =>
                   \/ product = <<>>
                   \/ product[1].selectedOrFirstAvailableVariant = <<>>

\* the selector 'blue', which no variant of the frontpack carries, got the default
\* variant of the product
C22_Witness ==
    /\ resolveCall.done
    /\ resolveCall.handle = "frontpack"
    /\ resolveCall.variantSpec = "blue"
    /\ resolveCall.storefront = CatalogAllFine
    /\ resolveCall.result = <<FrontpackRed>>

(***************************************************************************)
(* Properties of the pass when a collaborator fails.                       *)
(***************************************************************************)
\* the ids of the free lines whose stored threshold is above the paid subtotal
StaleIds(ls) ==
    {l.id : l \in {x \in ls : /\ IsFreeLine(x)
                              /\ HasKey(x, "_FREE_ITEM_THRESHOLD")
                              /\ JsLt(PaidSubtotal(ls),
                                      ParseFloat(FindAttr(x.attributes,
                                                          "_FREE_ITEM_THRESHOLD")))}}

\* the achieved freeItem milestones of a cart that have no free line yet
MissingFreeHandles(ls) == {h \in AchievedFreeHandles(ls) : FreeLinesOf(ls, h) = {}}

\* C23: when the lookup of an achieved, missing free item fails or gives a variant
\* that is not for sale, the pass adds no line for it, still adds the other missing
\* free items it can resolve, still removes the stale free lines, and leaves the item
\* missing, so that the next pass looks it up again.
C23_FailedLookupSkipsOnlyThatItem ==
    [][(op' = "PageLoad" /\ hasCart)
       => \A h \in MissingFreeHandles(lines) :
              ~ResolvesAvailable(h)
              => /\ h \notin AddedHandles(calls')
                 /\ FreeLinesOf(lines', h) = {}
                 /\ \A g \in MissingFreeHandles(lines) :
                        ResolvesAvailable(g) => g \in AddedHandles(calls')
                 /\ RemovedIdSet(calls') = StaleIds(lines)
                 /\ failed' \subseteq {c \in MutationCalls : calls'[c] # <<>>}
                 /\ h \in MissingFreeHandles(lines')]_vars

\* the sunnies are sold out while both free items are due: the pass added the
\* frontpack alone
C23_Witness ==
    /\ op = "PageLoad" /\ failed = {}
    /\ catalog = CatalogSoldOut
    /\ AchievedFreeHandles(lines) = {"black-sunnies", "frontpack"}
    /\ AddedHandles(calls) = {"frontpack"}
    /\ FreeLinesOf(lines, "black-sunnies") = {}
    /\ FreeLinesOf(lines, "frontpack") # {}

ConsistentWithSubtotal(ls, ship) ==
    /\ \A i \in 1..Len(ActiveMilestones) :
           ActiveMilestones[i].type = "freeItem" =>
               ((FreeLinesOf(ls, ActiveMilestones[i].handle) # {})
                   <=> JsGe(PaidSubtotal(ls), ActiveMilestones[i].threshold))
    /\ (ship = StrTrue) <=> ShippingDesired(ls)

\* C25: in a pass where one mutation call fails the other calls are still made and
\* take effect, and the next pass whose calls and lookups all succeed leaves the cart
\* consistent with its subtotal.
C25_NextPassRecovers ==
    [][/\ (op' = "PageLoad" /\ hasCart /\ failed' # {})
          => /\ (calls'.addLines # <<>> /\ "addLines" \notin failed')
                    => \A h \in AddedHandles(calls') : FreeLinesOf(lines', h) # {}
             /\ (calls'.removeLines # <<>> /\ "removeLines" \notin failed')
                    => \A l \in lines : l.id \in RemovedIdSet(calls') => l \notin lines'
             /\ (calls'.updateAttributes # <<>> /\ "updateAttributes" \notin failed')
                    => ((shipAttr' = StrTrue) <=> ShippingDesired(lines))
       /\ (/\ op \in Handlers /\ failed # {}
           /\ op' = "PageLoad" /\ failed' = {} /\ catalog = CatalogAllFine)
          => ConsistentWithSubtotal(lines', shipAttr')]_vars

\* the store after the mutation calls of a plan are executed on it once more
Reapplied(ls, ship, c) ==
    Let(IF c.addLines # <<>> THEN StoreAddLines(ls, c.addLines[1], 1) ELSE ls,
        LAMBDA afterAdd :
        [lines |-> IF c.removeLines # <<>>
                   THEN StoreRemoveLines(afterAdd, c.removeLines[1]) ELSE afterAdd,
         shipAttr |-> IF c.updateAttributes # <<>>
                      THEN c.updateAttributes[1][1].value ELSE ship])

\* C26: executing the mutation calls of a pass a second time leaves the cart as it was
\* after the first time: no second free line, no raised quantity.
C26_ReapplyingPlanIsHarmless ==
    (op = "PageLoad" /\ failed = {}) =>
        Reapplied(lines, shipAttr, calls) = [lines |-> lines, shipAttr |-> shipAttr]

(***************************************************************************)
(* Properties of the choice of the milestone list.                         *)
(***************************************************************************)
\* the variant named by the URL when it is exactly 'A' or 'B', else the session's value,
\* else 'A'
EffectiveVariant ==
    IF urlVariant = "A" \/ urlVariant = "B" THEN urlVariant
    ELSE IF variant = NoStr THEN "A"
    ELSE variant

\* the milestone list of Variant B for 'B', the list of Variant A for anything else
EffectiveMilestones ==
    IF EffectiveVariant = "B"
    THEN <<Milestone(50, "shipping", NoStr, NoStr, NoStr),
           Milestone(100, "freeItem", "black-sunnies", "Black Sunnies", NoStr),
           Milestone(150, "freeItem", "frontpack", "Front Pack", "green")>>
    ELSE <<Milestone(50, "shipping", NoStr, NoStr, NoStr)>>

\* the handles a pass over these lines adds under the effective milestone list
EffectiveAdds(ls) ==
    {EffectiveMilestones[i].handle : i \in {j \in 1..Len(EffectiveMilestones) :
        /\ EffectiveMilestones[j].type = "freeItem"
        /\ JsGe(PaidSubtotal(ls), EffectiveMilestones[j].threshold)
        /\ FreeLinesOf(ls, EffectiveMilestones[j].handle) = {}
        /\ LET found == resolveProductVariant(EffectiveMilestones[j].handle,
                                              EffectiveMilestones[j].variant, catalog)
           IN  found # <<>> /\ found[1].availableForSale}}

PassOnEmptyCart ==
    /\ op' \in Handlers
    /\ lines' = {}
    /\ calls'.addLines = <<>> /\ calls'.removeLines = <<>>
    /\ ActiveMilestones = VARIANTS("A")

\* the evaluated state of the cart, server and client: no progress, nothing achieved
EmptyCartEvaluation(cart) ==
    \A state \in {calculateCartPerksState(cart, "A"), useCartPerksController(cart, "A")} :
        /\ ~state.hasProgress
        /\ ~state.allAchieved
        /\ \A i \in 1..Len(state.milestones) : ~state.milestones[i].achieved

\* C28 as stated: for an empty cart under Variant A the evaluated state has
\* hasProgress=false and allAchieved=false, no milestone is achieved, and the pass makes
\* no attribute update, no line add and no line removal.
C28_EmptyCartNoActions ==
    [][PassOnEmptyCart =>
          /\ EmptyCartEvaluation(CartGet(hasCart', lines', shipAttr))
          /\ calls' = NoCalls]_vars

\* C28: for an empty cart under Variant A the evaluated state has hasProgress=false and
\* allAchieved=false and no milestone is achieved; the pass adds and removes no line, and
\* it makes no attribute update unless __FREE_SHIPPING is "true", in which case its one
\* action is the update of __FREE_SHIPPING to "false".
C28_EmptyCartNoActionsUnlessShippingSet ==
    [][PassOnEmptyCart =>
          /\ EmptyCartEvaluation(CartGet(hasCart', lines', shipAttr))
          /\ shipAttr # StrTrue => calls' = NoCalls
          /\ shipAttr = StrTrue =>
                /\ calls' = [NoCalls EXCEPT !.updateAttributes =
                                <<(<<Attr("__FREE_SHIPPING", StrFalse)>>)>>]
                /\ "updateAttributes" \notin failed' => shipAttr' = StrFalse]_vars

\* a cart emptied by the user whose pass made no call
C28_Witness ==
    /\ op = "LinesRemove" /\ hasCart /\ lines = {}
    /\ ActiveMilestones = VARIANTS("A")
    /\ shipAttr # StrTrue
    /\ calls = NoCalls

ChosenVariants(f) ==
    IF f.showBundleBuilder THEN f.bundleVariants
    ELSE <<f.selectedVariant, f.selectedVariant, f.selectedVariant>>

\* C30: a click on the 3-Pack button submits no lines or exactly three lines, each of
\* quantity 1 and tagged _BUNDLE_NAME="men-t-shirt"; it submits none when no variant is
\* selected or one of the three chosen variants is not available for sale.
C30_ThreeTaggedLinesOrNone ==
    [][/\ op' = "ClickBundleButton" =>
             /\ form.selectedVariant # NoStr
             /\ \A i \in 1..3 : AvailableForSale(ChosenVariants(form)[i])
       /\ op' = "SubmitBundleForm" =>
             \E ls \in {form'.fetcher.lines} :
                 /\ Len(ls) \in {0, 3}
                 /\ \A i \in 1..Len(ls) :
                        /\ ls[i].quantity = 1
                        /\ \E a \in 1..Len(ls[i].attributes) :
                               ls[i].attributes[a] = Attr("_BUNDLE_NAME", "men-t-shirt")
                        /\ ls[i].merchandiseId = ChosenVariants(form)[i]
                 /\ (\/ form.selectedVariant = NoStr
                     \/ \E i \in 1..3 : ~AvailableForSale(ChosenVariants(form)[i]))
                        => ls = <<>>]_vars

\* a mix-and-match 3-pack of two different variants has been submitted
C30_Witness ==
    /\ form.mounted /\ op = "SubmitBundleForm"
    /\ form.showBundleBuilder
    /\ Len(form.fetcher.lines) = 3
    /\ form.fetcher.lines[1].merchandiseId # form.fetcher.lines[2].merchandiseId

C32_FeatureValuePersists ==
    (flags.used /\ flags.explicit = NoValue /\ flags.expected # NoValue)
        => flags.result = flags.expected

(***************************************************************************)
(* Properties of the pass when the plan fails validation.                  *)
(***************************************************************************)
\* the catalog resolves the milestone of this handle to a variant for sale without id
ResolvesWithoutId(handle) ==
    \E i \in 1..Len(ActiveMilestones) :
        /\ ActiveMilestones[i].handle = handle
        /\ LET found == resolveProductVariant(handle, ActiveMilestones[i].variant, catalog)
           IN  found # <<>> /\ found[1].availableForSale /\ found[1].id = ""

\* C33: when the add planned for an achieved, missing free item fails validation (its
\* variant has no id), only that add is left out: the pass still makes the update of
\* __FREE_SHIPPING that is due, the other adds and the removals.
C33_InvalidItemAloneIsOmitted ==
    [][(op' = "PageLoad" /\ hasCart /\ failed' = {})
       => \A h \in MissingFreeHandles(lines) :
              ResolvesWithoutId(h)
              => /\ h \notin AddedHandles(calls')
                 /\ \A g \in MissingFreeHandles(lines) :
                        (ResolvesAvailable(g) /\ ~ResolvesWithoutId(g))
                            => g \in AddedHandles(calls')
                 /\ RemovedIdSet(calls') = StaleIds(lines)
                 /\ (calls'.updateAttributes # <<>>)
                        <=> (ShippingDesired(lines) # (shipAttr = StrTrue))]_vars

(***************************************************************************)
(* Properties of the tags of free lines and bundle lines.                  *)
(***************************************************************************)
HasFreeTag(l) ==
    HasKey(l, "_FREE_ITEM") \/ HasKey(l, "_FREE_ITEM_TYPE") \/ HasKey(l, "_FREE_ITEM_THRESHOLD")

HasBundleTag(l) == HasKey(l, "_BUNDLE_NAME") \/ HasKey(l, "_BUNDLE_ID")

\* C34: no line of the cart carries free-item tags and bundle tags at once: the lines
\* the pass adds have no bundle tag, the lines of a 3-pack no free-item tag; no free line
\* is in a bundle group of the drawer, nor counted by validateRemainingBundles.
C34_FreeLinesCarryNoBundleTags ==
    /\ \A l \in lines : ~(HasFreeTag(l) /\ HasBundleTag(l))
    /\ \A k \in 1..Len(AddedLines(calls)) :
           \A a \in 1..Len(AddedLines(calls)[k].attributes) :
               AddedLines(calls)[k].attributes[a].key \notin {"_BUNDLE_NAME", "_BUNDLE_ID"}
    /\ \E groups \in {groupCartLines(Nodes(lines)).bundles} :
           \A b \in DOMAIN groups : \A i \in 1..Len(groups[b].lines) :
               ~IsFreeLine(groups[b].lines[i])
    /\ \E counts \in {validateRemainingBundles(Nodes(lines)).allBundleCounts} :
           \A b \in DOMAIN counts :
               counts[b] = TotalQuantity({l \in GroupOf(lines, b) : ~IsFreeLine(l)})

\* a cart holding a 3-pack and the free sunnies the pass added for it
C34_Witness ==
    /\ op = "LinesAdd" /\ failed = {}
    /\ AddedHandles(calls) = {"black-sunnies"}
    /\ \E l \in lines : IsFreeLine(l)
    /\ CompleteGroups(lines) # {}

(***************************************************************************)
(* Properties of the pass as a function of its inputs.                     *)
(***************************************************************************)
\* what a pass does to a cart, read from the cart, the variant and the catalog alone
MutationsFor(exists, ls, attr) ==
    IF ~exists THEN [update |-> <<>>, added |-> {}, removed |-> {}]
    ELSE [update |-> IF ShippingDesired(ls) # (attr = StrTrue)
                     THEN <<IF ShippingDesired(ls) THEN StrTrue ELSE StrFalse>>
                     ELSE <<>>,
          added |-> {h \in MissingFreeHandles(ls) : ResolvesAvailable(h)},
          removed |-> IF AchievedFreeHandles(ls) # {} THEN StaleIds(ls) ELSE {}]

\* the mutations of the calls of a pass
MutationsOf(c) ==
    [update |-> IF c.updateAttributes = <<>> THEN <<>>
                ELSE <<c.updateAttributes[1][1].value>>,
     added |-> AddedHandles(c),
     removed |-> RemovedIdSet(c)]

\* C35: the mutations of a pass are a function of the cart snapshot, the variant and
\* the catalog answers only: whatever requests and passes came before, and whatever
\* the previous pass called or failed to do, a pass on page load whose calls all return
\* performs exactly the mutations these three determine.
C35_PassHasNoMemory ==
    [][(op' = "PageLoad" /\ failed' = {})
          => MutationsOf(calls') = MutationsFor(hasCart, lines, shipAttr)]_vars

\* a page load whose pass has set __FREE_SHIPPING and added a free line
C35_Witness ==
    /\ op = "PageLoad" /\ failed = {}
    /\ calls.updateAttributes # <<>> /\ calls.addLines # <<>>
    /\ shipAttr = StrTrue
    /\ \E l \in lines : IsFreeLine(l)

(***************************************************************************)
(* Properties of the two copies of the milestone evaluator.                *)
(***************************************************************************)
\* C36: for every cart and every variant, the evaluator of the cart route and the one
\* of the client library return the same subtotal, the same achieved, remaining and
\* eligible for each milestone, the same nextMilestone, hasProgress and allAchieved.
C36_ServerAndClientAgree ==
    calcOut.done =>
        /\ calcOut.server.subtotal = calcOut.client.subtotal
        /\ Len(calcOut.server.milestones) = Len(calcOut.client.milestones)
        /\ \A i \in 1..Len(calcOut.server.milestones) :
               /\ calcOut.server.milestones[i].threshold = calcOut.client.milestones[i].threshold
               /\ calcOut.server.milestones[i].type = calcOut.client.milestones[i].type
               /\ calcOut.server.milestones[i].achieved = calcOut.client.milestones[i].achieved
               /\ calcOut.server.milestones[i].remaining = calcOut.client.milestones[i].remaining
               /\ calcOut.server.milestones[i].eligible = calcOut.client.milestones[i].eligible
        /\ calcOut.server.nextMilestone = calcOut.client.nextMilestone
        /\ calcOut.server.hasProgress = calcOut.client.hasProgress
        /\ calcOut.server.allAchieved = calcOut.client.allAchieved

\* Variant B, a cart with a free line and paid lines worth 100: both copies report
\* shipping and the sunnies achieved and the frontpack as next milestone
C36_Witness ==
    /\ calcOut.done
    /\ variant = "B"
    /\ \E i \in 1..Len(calcCart.nodes) : IsFreeLine(calcCart.nodes[i])
    /\ calcOut.client.subtotal = Units(100)
    /\ calcOut.client.milestones[2].achieved
    /\ calcOut.client.nextMilestone = <<calcOut.server.milestones[3]>>
    /\ calcOut.client.hasProgress

(***************************************************************************)
(* Properties of the two completeness decisions of a bundle.               *)
(***************************************************************************)
\* C37: for every cart and every group of the drawer, whatever the name of the bundle
\* and whichever lines carry one tag only, the drawer shows the group as complete if
\* and only if validateRemainingBundles counts its _BUNDLE_ID as a valid bundle.
C37_DrawerAndRouteAgree ==
    \E counts \in {validateRemainingBundles(Nodes(lines)).allBundleCounts} :
    \E groups \in {groupCartLines(Nodes(lines)).bundles} :
        /\ \A b \in DOMAIN groups :
               isCompleteBundle(groups[b]) <=> (b \in DOMAIN counts /\ counts[b] = 3)
        /\ \A b \in DOMAIN counts :
               counts[b] = 3 => (b \in DOMAIN groups /\ isCompleteBundle(groups[b]))

(***************************************************************************)
(* Properties of the number of calls and of passes of a request.           *)
(***************************************************************************)
\* the pass a request with this action would run on the cart as it is now
PassFor(action) ==
    Let(CartGet(hasCart, lines, shipAttr), LAMBDA cart :
        processCartPerks(cart,
                         [lines |-> lines, shipAttr |-> shipAttr, storefront |-> catalog,
                          session |-> variant, throwing |-> {}],
                         action, [cart_variant |-> urlVariant]))

\* C38: a pass makes at most one updateAttributes call, one addLines call and one
\* removeLines call; the pass is skipped for the action 'CartPerksUpdate'; the calls of
\* the pass start no further pass: after a page load the cart is the cart of before
\* with the calls of that one pass applied once, even when another pass would do more.
C38_OnePassOfAtMostThreeCalls ==
    [][/\ op' \in Handlers \cup {"ServerError"} =>
              /\ Len(calls'.updateAttributes) <= 1
              /\ Len(calls'.addLines) <= 1
              /\ Len(calls'.removeLines) <= 1
       /\ PassFor("CartPerksUpdate").calls = NoCalls
       /\ PassFor("CartPerksUpdate").lines = lines
       /\ (op' = "PageLoad" /\ failed' = {}) =>
              /\ lines' = StoreRemoveLines(StoreAddLines(lines, AddedLines(calls'), 1),
                                           RemovedIds(calls'))
              /\ calls'.updateAttributes = <<>> => shipAttr' = shipAttr]_vars

\* a pass that adds two free lines with a single addLines call
C38_Witness ==
    /\ op \in Handlers /\ failed = {}
    /\ Len(calls.addLines) = 1
    /\ Len(AddedLines(calls)) = 2
    /\ Cardinality({l \in lines : IsFreeLine(l)}) = 2

(***************************************************************************)
(* Properties of the response of the cart action.                          *)
(***************************************************************************)
\* the lines of a cart snapshot
SnapshotLines(cart) == {cart.nodes[i] : i \in 1..Len(cart.nodes)}

\* C39: the response of the cart action is that of the user's mutation, whatever the
\* pass does or fails to do: status 200 with the cart the mutation returned, never a
\* server error and never the cart after the pass.  The stored cart is the returned
\* cart with the calls of the pass applied; the returned cart shows none of them.
C39_ResponseIsTheMutationsCart ==
    [][op' \in UserOps \cup {"ServerError"} =>
          /\ op' # "ServerError"
          /\ returned'.kind = "action" /\ returned'.status = 200
          /\ returned'.errors = <<>> /\ returned'.warnings = <<>>
          /\ CurrentShippingValue(returned'.cart) = shipAttr
          /\ {l \in SnapshotLines(returned'.cart) : ~IsFreeLine(l)}
                 = {l \in lines' : ~IsFreeLine(l)}
          /\ failed' = {} =>
                 lines' = StoreRemoveLines(
                              StoreAddLines(SnapshotLines(returned'.cart),
                                            AddedLines(calls'), 1),
                              RemovedIds(calls'))
          /\ (lines' # SnapshotLines(returned'.cart) \/ shipAttr' # shipAttr) =>
                 returned'.cart # CartGet(hasCart', lines', shipAttr')]_vars

\* an add whose pass has set __FREE_SHIPPING and added a free line: the response
\* carries the cart without the free line and without the attribute
C39_Witness ==
    /\ op = "LinesAdd" /\ failed = {}
    /\ returned.kind = "action"
    /\ calls.updateAttributes # <<>> /\ calls.addLines # <<>>
    /\ shipAttr = StrTrue
    /\ CurrentShippingValue(returned.cart) = Undefined
    /\ \E l \in lines : IsFreeLine(l) /\ l \notin SnapshotLines(returned.cart)

====
